---- MODULE Spec2Model ----
(***************************************************************************)
(* Model of the daily photo selection of render_daily_photo.py: the flat   *)
(* selection choose_photos_for_today, the orientation-balanced selection   *)
(* choose_photos_by_orientation, and the day-of-year conversions both use. *)
(*                                                                         *)
(* A photo record is [path, md, memory, probe]: md is the "MM-DD" string   *)
(* as the tuple of its characters, memory the memory score, probe what     *)
(* opening the image file at path yields.                                  *)
(***************************************************************************)
EXTENDS Integers, Sequences, FiniteSets, TLC

VARIABLES
    items,             \* the list load_sim_rows has built so far
    MEMORY_THRESHOLD,  \* cfg.MEMORY_THRESHOLD, fixed when the module is imported
    call,              \* the last selection call: function and arguments
    ret,               \* what that call returned or raised
    loop,              \* position of the backtracking loop (SpecLoop)
    conv,              \* a day-of-year conversion in progress (SpecDoy)
    render,            \* the last call of render_image or of one of its helpers
    dither,            \* applyFourColorDither: pixels, accumulators, position
    CYCLE_STATES,      \* server: _CYCLE_STATES, cache key -> photos, idx, built_at
    LAST_PHOTO_DATE,   \* server: _LAST_PHOTO_DATE
    STARTUP_SELECTED_PHOTOS, \* server: _STARTUP_SELECTED_PHOTOS
    CYCLE_PHOTOS,      \* server: _CYCLE_PHOTOS
    CYCLE_IDX,         \* server: _CYCLE_IDX
    CYCLE_LOCK,        \* server: the thread that holds _CYCLE_LOCK, if any
    threads,           \* server: the request each thread is handling
    clock,             \* server: time.time() and the calendar date
    served,            \* server: the responses of /today-image so far
    join_call          \* server: the last call of _safe_join

selectionVars == <<items, MEMORY_THRESHOLD, call, ret, loop, conv>>
compositorVars == <<render, dither>>
serverVars ==
    <<CYCLE_STATES, LAST_PHOTO_DATE, STARTUP_SELECTED_PHOTOS, CYCLE_PHOTOS,
      CYCLE_IDX, CYCLE_LOCK, threads, clock, served, join_call>>

vars == <<selectionVars, compositorVars, serverVars>>

----------------------------------------------------------------------------
(* Bounds of the model *)

MaxItems == 3
MaxCount == 2
MaxOrient == 1

(* Program constants *)

BACKTRACK_DAYS == 365
DEFAULT_THRESHOLD == 70

----------------------------------------------------------------------------
(* Python values *)

None == <<>>
Some(v) == <<v>>

Range(s) == {s[i] : i \in 1..Len(s)}

\* the cache keys of the server, and its cache with no key in it
Keys == {"all", "landscape", "portrait"}

NoStates == [key \in Keys |-> None]

\* f"{n:02d}" for 0 <= n <= 99: the two decimal digits
Fmt02(n) == <<n \div 10, n % 10>>

\* f"{m:02d}-{d:02d}"
FmtMd(m, d) == Fmt02(m) \o <<"-">> \o Fmt02(d)

\* m, d = map(int, md.split("-"))
ParseMd(md) == <<md[1] * 10 + md[2], md[4] * 10 + md[5]>>

----------------------------------------------------------------------------
(* Day-of-year conversions *)

days_before == <<0, 31, 59, 90, 120, 151, 181, 212, 243, 273, 304, 334>>

\* mutant: the day of the month is left out of the sum
md_to_day_of_year_MonthOnly(md) ==
    LET m == ParseMd(md)[1]
    IN  IF m < 1 \/ m > 12 THEN None
        ELSE Some(days_before[m] + 1)

\* days_before is indexed from 0 in the source, with a leading 0 entry
md_to_day_of_year(md) ==
    LET m == ParseMd(md)[1]
        d == ParseMd(md)[2]
    IN  IF m < 1 \/ m > 12 THEN None
        ELSE Some(days_before[m] + d)

\* datetime's calendar: the length of month m of year y
IsLeap(y) == y % 4 = 0 /\ (y % 100 # 0 \/ y % 400 = 0)

MonthLen(y, m) ==
    IF m = 2 THEN (IF IsLeap(y) THEN 29 ELSE 28)
    ELSE IF m \in {4, 6, 9, 11} THEN 30 ELSE 31

\* dt.date(y, m, 1) + dt.timedelta(days = n), as <<year, month, day>>
RECURSIVE DateAdd(_, _, _)
DateAdd(y, m, n) ==
    IF n < 0
    THEN LET py == IF m = 1 THEN y - 1 ELSE y
             pm == IF m = 1 THEN 12 ELSE m - 1
         IN  DateAdd(py, pm, n + MonthLen(py, pm))
    ELSE IF n >= MonthLen(y, m)
    THEN DateAdd(IF m = 12 THEN y + 1 ELSE y, IF m = 12 THEN 1 ELSE m + 1,
                 n - MonthLen(y, m))
    ELSE <<y, m, n + 1>>

\* mutant: the reference year is a leap year
day_of_year_to_md_LeapBase(day) ==
    LET base == DateAdd(2000, 1, day - 1)
    IN  FmtMd(base[2], base[3])

\* base = dt.date(2001, 1, 1) + dt.timedelta(days = day - 1)
day_of_year_to_md(day) ==
    LET base == DateAdd(2001, 1, day - 1)
    IN  FmtMd(base[2], base[3])

\* mutant: the day of year is not wrapped into 1..365
BacktrackDoy_NoWrap(target_doy, offset) == target_doy - offset

\* The backtracking loop header shared by both selections:
\* doy = target_doy - offset; if doy <= 0: doy += 365
BacktrackDoy(target_doy, offset) ==
    LET doy == target_doy - offset
    IN  IF doy <= 0 THEN doy + 365 ELSE doy

\* md = day_of_year_to_md(doy) in iteration offset of the loop
BacktrackMd(target_doy, offset) ==
    day_of_year_to_md(BacktrackDoy(target_doy, offset))

----------------------------------------------------------------------------
(* Calendar *)

\* the month/day pairs a dt.date can carry, 29 February included
CalendarDays ==
    {<<m, d>> : m \in 1..12, d \in 1..31} \
        ({<<2, 30>>, <<2, 31>>} \cup {<<m, 31>> : m \in {4, 6, 9, 11}})

\* the month/day pairs of a non-leap year
NonLeapDays == CalendarDays \ {<<2, 29>>}

\* the values of TODAY in the selection runs
Todays == {<<7, 4>>, <<1, 1>>, <<2, 29>>}

----------------------------------------------------------------------------
(* load_sim_rows: one item per usable database row *)

\* the item built from a row (path, month, day, memory_score, image probe)
Item(path, m, d, memory_score, probe) ==
    [path   |-> path,
     md     |-> FmtMd(m, d),
     memory |-> IF memory_score = None THEN -1 ELSE memory_score[1],
     probe  |-> probe]

Paths == 1..MaxItems

UsedPaths(its) == {its[i].path : i \in 1..Len(its)}

----------------------------------------------------------------------------
(* list.sort(key = memory, reverse = True): stable, descending *)

RECURSIVE InsertDesc(_, _)
InsertDesc(sorted, x) ==
    IF sorted = <<>> THEN <<x>>
    ELSE IF sorted[Len(sorted)].memory >= x.memory THEN Append(sorted, x)
    ELSE Append(InsertDesc(SubSeq(sorted, 1, Len(sorted) - 1), x),
                sorted[Len(sorted)])

RECURSIVE SortDesc(_)
SortDesc(s) ==
    IF s = <<>> THEN <<>>
    ELSE InsertDesc(SortDesc(SubSeq(s, 1, Len(s) - 1)), s[Len(s)])

\* mutant: the groups are left in the order the items were loaded
by_md_Unsorted(its) ==
    [md \in {its[i].md : i \in 1..Len(its)} |->
        SelectSeq(its, LAMBDA it : it.md = md)]

\* by_md: items grouped by md, each group sorted by memory descending
by_md(its) ==
    [md \in {its[i].md : i \in 1..Len(its)} |->
        SortDesc(SelectSeq(its, LAMBDA it : it.md = md))]

\* dict.get(key, default)
Get(dict, key, default) ==
    IF key \in DOMAIN dict THEN dict[key] ELSE default

\* mutant: the threshold test lets a score equal to the threshold through
Candidates_AtLeast(arr, threshold) ==
    SelectSeq(arr, LAMBDA p : p.memory >= threshold)

\* [p for p in arr if p["memory"] > MEMORY_THRESHOLD]
Candidates(arr, threshold) ==
    SelectSeq(arr, LAMBDA p : p.memory > threshold)

\* mutant: the records are sorted in the caller's list itself
CallerList_SortedInPlace(its) == SortDesc(its)

\* the caller's list after a selection has run on it: by_md holds lists of
\* its own (setdefault(md, [])), arr.sort sorts those, sorted(items) and
\* list(candidates) are copies, and no statement assigns to the list or to
\* one of its records
CallerList(its) == its

\* the outcomes of random.sample(population, k): k entries at distinct
\* positions of the population, in any order
Samples(population, k) ==
    {[i \in 1..k |-> population[pos[i]]] :
        pos \in {f \in [1..k -> 1..Len(population)] :
                    \A i, j \in 1..k : i # j => f[i] # f[j]}}

----------------------------------------------------------------------------
(* choose_photos_for_today *)

\* the md of every iteration of "for offset in range(0, 365)"
LoopMds(target_doy) ==
    [offset \in 0..(BACKTRACK_DAYS - 1) |-> BacktrackMd(target_doy, offset)]

\* for every md the loop comes to, the first iteration that comes to it
FirstOffsets(target_doy) ==
    LET mds == LoopMds(target_doy)
    IN  [md \in {mds[offset] : offset \in DOMAIN mds} |->
            CHOOSE offset \in DOMAIN mds :
                /\ mds[offset] = md
                /\ \A earlier \in 0..(offset - 1) : mds[earlier] # md]

\* FirstOffsets of the target days of the runs, computed once
FirstOffsetsOfRuns ==
    LET target_doys == {md_to_day_of_year(FmtMd(today[1], today[2])) :
                            today \in Todays} \ {None}
    IN  [target_doy \in {t[1] : t \in target_doys} |->
            FirstOffsets(target_doy)]

\* the iterations that do not end in one of the two "continue"s, as far as
\* the selections depend on them: for every md with a non-empty bucket and a
\* candidate, the first iteration that looks at it (a later look at the same
\* md would find the same bucket and add nothing to the pool)
HitOffsets(groups, threshold, target_doy) ==
    LET live  == {md \in DOMAIN groups :
                    groups[md] # <<>> /\ Candidates(groups[md], threshold) # <<>>}
        first == IF target_doy \in DOMAIN FirstOffsetsOfRuns
                 THEN FirstOffsetsOfRuns[target_doy]
                 ELSE FirstOffsets(target_doy)
    IN  {first[md] : md \in live \cap DOMAIN first}

\* the loop over offset: it returns in the first iteration that reaches the
\* end of its body, and falls through when every iteration continues
FlatSearch(groups, threshold, target_doy) ==
    LET hits == HitOffsets(groups, threshold, target_doy)
    IN  IF hits = {} THEN [found |-> FALSE]
        ELSE LET offset == CHOOSE o \in hits : \A p \in hits : o <= p
                 md     == BacktrackMd(target_doy, offset)
                 arr    == Get(groups, md, <<>>)
             IN  [found |-> TRUE, offset |-> offset, md |-> md, arr |-> arr,
                  candidates |-> Candidates(arr, threshold)]

\* mutant: the padding does not skip the entries already chosen
RECURSIVE PadFrom_NoSkip(_, _, _, _)
PadFrom_NoSkip(chosen_list, arr, i, count) ==
    IF i > Len(arr) THEN chosen_list
    ELSE LET longer == Append(chosen_list, arr[i])
         IN  IF Len(longer) >= count THEN longer
             ELSE PadFrom_NoSkip(longer, arr, i + 1, count)

\* for extra in arr: skip those already chosen, append, stop at count
RECURSIVE PadFrom(_, _, _, _)
PadFrom(chosen_list, arr, i, count) ==
    IF i > Len(arr) THEN chosen_list
    ELSE IF arr[i] \in Range(chosen_list)
         THEN PadFrom(chosen_list, arr, i + 1, count)
    ELSE LET longer == Append(chosen_list, arr[i])
         IN  IF Len(longer) >= count THEN longer
             ELSE PadFrom(longer, arr, i + 1, count)

\* the lists the dated branch can return for one found bucket
FlatChosen(candidates, arr, count) ==
    IF Len(candidates) >= count
    THEN Samples(candidates, count)
    ELSE {PadFrom(candidates, arr, 1, count)}

\* mutant: the global fallback takes the first count items as loaded
GlobalTop_Unsorted(its, count) ==
    SubSeq(its, 1, IF count < Len(its) THEN count ELSE Len(its))

\* sorted(items, key = memory, reverse = True)[:count]
GlobalTop(its, count) ==
    LET sorted_all == SortDesc(its)
    IN  SubSeq(sorted_all, 1, IF count < Len(its) THEN count ELSE Len(its))

\* what the loop and the branch after it return, for one outcome of sample
FlatReturn(target_md, hit, chosen_list, its, threshold) ==
    IF hit.found
    THEN [kind   |-> "return",
          chosen |-> chosen_list,
          info   |-> [target_md |-> target_md,
                      used_md |-> hit.md,
                      day_offset |-> Some(-hit.offset),
                      candidate_count |-> Len(hit.candidates),
                      total_count_md |-> Len(hit.arr),
                      threshold |-> threshold,
                      fallback_global_max |-> FALSE]]
    ELSE [kind   |-> "return",
          chosen |-> chosen_list,
          info   |-> [target_md |-> target_md,
                      used_md |-> IF chosen_list # <<>> THEN chosen_list[1].md
                                  ELSE <<>>,
                      day_offset |-> None,
                      candidate_count |-> Len(chosen_list),
                      total_count_md |-> Len(its),
                      threshold |-> threshold,
                      fallback_global_max |-> TRUE]]

\* choose_photos_for_today after its check of an empty list
FlatBody(its, threshold, today, count) ==
    LET target_md == FmtMd(today[1], today[2])
    IN  UNION {
          IF target_doy = None
          THEN {[kind |-> "raise", error |-> "unparsable date"]}
          ELSE UNION {
                 {FlatReturn(target_md, hit, chosen_list, its, threshold) :
                    chosen_list \in
                      IF hit.found
                      THEN FlatChosen(hit.candidates, hit.arr, count)
                      ELSE {GlobalTop(its, count)}} :
                 hit \in {FlatSearch(by_md(its), threshold, target_doy[1])}} :
          target_doy \in {md_to_day_of_year(target_md)}}

\* mutant: the check of an empty list is missing
choose_photos_for_today_NoEmptyCheck(its, threshold, today, count) ==
    FlatBody(its, threshold, today, count)

\* every value choose_photos_for_today(its, today, count) can produce, with
\* MEMORY_THRESHOLD = threshold
choose_photos_for_today(its, threshold, today, count) ==
    IF its = <<>> THEN {[kind |-> "raise", error |-> "no photos"]}
    ELSE FlatBody(its, threshold, today, count)

----------------------------------------------------------------------------
(* choose_photos_by_orientation *)

\* mutant: a file that cannot be probed counts as landscape
is_landscape_UnknownAsLandscape(p) ==
    IF p.probe = "portrait" THEN Some(FALSE) ELSE Some(TRUE)

\* is_landscape(path): None when the file is missing or cannot be opened
is_landscape(p) ==
    IF p.probe = "landscape" THEN Some(TRUE)
    ELSE IF p.probe = "portrait" THEN Some(FALSE)
    ELSE None

Lands(ps) == SelectSeq(ps, LAMBDA p : is_landscape(p) = Some(TRUE))
Ports(ps) == SelectSeq(ps, LAMBDA p : is_landscape(p) = Some(FALSE))

\* for p in candidates: append to pool unless its path was seen
RECURSIVE AddToPool(_, _, _)
AddToPool(pool, candidates, i) ==
    IF i > Len(candidates) THEN pool
    ELSE IF candidates[i].path \in UsedPaths(pool)
         THEN AddToPool(pool, candidates, i + 1)
    ELSE AddToPool(Append(pool, candidates[i]), candidates, i + 1)

\* the offsets of a set in ascending order
RECURSIVE Ascending(_)
Ascending(offsets) ==
    IF offsets = {} THEN <<>>
    ELSE LET least == CHOOSE o \in offsets : \A q \in offsets : o <= q
         IN  <<least>> \o Ascending(offsets \ {least})

\* mutant: the loop breaks once either orientation count is met
RECURSIVE PoolLoop_EitherMet(_, _, _, _, _, _, _, _)
PoolLoop_EitherMet(groups, threshold, target_doy, hits, i, pool, landscape_count, portrait_count) ==
    IF i > Len(hits) THEN [pool |-> pool, used_md |-> <<>>, broke |-> FALSE]
    ELSE LET md       == BacktrackMd(target_doy, hits[i])
             arr      == Get(groups, md, <<>>)
             pool_now == AddToPool(pool, Candidates(arr, threshold), 1)
         IN  IF \/ Len(Lands(pool_now)) >= landscape_count
                \/ Len(Ports(pool_now)) >= portrait_count
             THEN [pool |-> pool_now, used_md |-> md, broke |-> TRUE]
             ELSE PoolLoop_EitherMet(groups, threshold, target_doy, hits,
                                     i + 1, pool_now, landscape_count,
                                     portrait_count)

\* the loop over offset, from the i-th iteration that does not continue: the
\* pool grows by that day's candidates and the loop breaks once both
\* orientation counts are met
RECURSIVE PoolLoop(_, _, _, _, _, _, _, _)
PoolLoop(groups, threshold, target_doy, hits, i, pool, landscape_count, portrait_count) ==
    IF i > Len(hits) THEN [pool |-> pool, used_md |-> <<>>, broke |-> FALSE]
    ELSE LET md       == BacktrackMd(target_doy, hits[i])
             arr      == Get(groups, md, <<>>)
             pool_now == AddToPool(pool, Candidates(arr, threshold), 1)
         IN  IF /\ Len(Lands(pool_now)) >= landscape_count
                /\ Len(Ports(pool_now)) >= portrait_count
             THEN [pool |-> pool_now, used_md |-> md, broke |-> TRUE]
             ELSE PoolLoop(groups, threshold, target_doy, hits, i + 1,
                           pool_now, landscape_count, portrait_count)

\* mutant: the whole group is taken, however large
SampleOrAll_All(group, wanted) == {group}

\* random.sample(group, wanted) if the group is large enough, else the group
SampleOrAll(group, wanted) ==
    IF Len(group) >= wanted THEN Samples(group, wanted) ELSE {group}

\* the fill from the global ranking, from its i-th entry on
RECURSIVE FillFrom(_, _, _, _, _)
FillFrom(chosen, sorted_all, i, landscape_count, portrait_count) ==
    IF i > Len(sorted_all) THEN chosen
    ELSE
      LET p   == sorted_all[i]
          ori == is_landscape(p)
          after ==
            IF p.path \in UsedPaths(chosen) THEN chosen
            ELSE IF ori = Some(TRUE) /\ Len(Lands(chosen)) < landscape_count
                 THEN Append(chosen, p)
            ELSE IF ori = Some(FALSE) /\ Len(Ports(chosen)) < portrait_count
                 THEN Append(chosen, p)
            ELSE IF ori = None
                 THEN IF Len(Lands(chosen)) < landscape_count
                      THEN Append(chosen, p)
                      ELSE IF Len(Ports(chosen)) < portrait_count
                           THEN Append(chosen, p)
                           ELSE chosen
            ELSE chosen
      IN  IF p.path \in UsedPaths(chosen)
          THEN FillFrom(chosen, sorted_all, i + 1, landscape_count,
                        portrait_count)
          ELSE IF Len(after) >= landscape_count + portrait_count THEN after
          ELSE FillFrom(after, sorted_all, i + 1, landscape_count,
                        portrait_count)

\* if len(chosen) < landscape_count + portrait_count: fill from the ranking
Fill(chosen, its, landscape_count, portrait_count) ==
    IF Len(chosen) < landscape_count + portrait_count
    THEN FillFrom(chosen, SortDesc(its), 1, landscape_count, portrait_count)
    ELSE chosen

\* final: chosen without the later entries of a path already kept
RECURSIVE DedupByPath(_, _, _)
DedupByPath(final, chosen, i) ==
    IF i > Len(chosen) THEN final
    ELSE IF chosen[i].path \in UsedPaths(final)
         THEN DedupByPath(final, chosen, i + 1)
    ELSE DedupByPath(Append(final, chosen[i]), chosen, i + 1)

\* the info dict of choose_photos_by_orientation
BalancedInfo(target_md, used_md, final, landscape_count, portrait_count, threshold) ==
    [target_md |-> target_md,
     used_md |-> IF used_md # <<>> THEN used_md
                 ELSE IF final # <<>> THEN final[1].md ELSE <<>>,
     requested_landscape |-> landscape_count,
     requested_portrait |-> portrait_count,
     returned_count |-> Len(final),
     threshold |-> threshold]

\* what follows the loop, for one outcome of the two samples
BalancedReturn(target_md, found, lands, ports, its, landscape_count, portrait_count, threshold) ==
    LET chosen == Fill(lands \o ports, its, landscape_count, portrait_count)
        final  == DedupByPath(<<>>, chosen, 1)
    IN  [kind   |-> "return",
         chosen |-> final,
         info   |-> BalancedInfo(target_md, found.used_md, final,
                                 landscape_count, portrait_count, threshold),
         \* not returned: the pool, whether the loop broke, and how many
         \* entries of chosen the two samples gave
         pool    |-> found.pool,
         broke   |-> found.broke,
         sampled |-> Len(lands \o ports)]

\* every value choose_photos_by_orientation(its, today, landscape_count,
\* portrait_count) can produce
choose_photos_by_orientation(its, threshold, today, landscape_count, portrait_count) ==
    IF its = <<>> THEN {[kind |-> "raise", error |-> "no photos"]}
    ELSE
      LET target_md == FmtMd(today[1], today[2])
      IN  UNION {
            IF target_doy = None
            THEN {[kind |-> "raise", error |-> "unparsable date"]}
            ELSE UNION {
                   {BalancedReturn(target_md, found, lands, ports, its,
                                   landscape_count, portrait_count, threshold) :
                      lands \in SampleOrAll(Lands(found.pool), landscape_count),
                      ports \in SampleOrAll(Ports(found.pool), portrait_count)} :
                   found \in
                     UNION {{PoolLoop(groups, threshold, target_doy[1],
                                Ascending(HitOffsets(groups, threshold,
                                                     target_doy[1])),
                                1, <<>>, landscape_count, portrait_count)} :
                            groups \in {by_md(its)}}} :
            target_doy \in {md_to_day_of_year(target_md)}}

----------------------------------------------------------------------------
(* Loading: load_sim_rows appends one item per row of photo_scores *)

Idle == [kind |-> "none"]

\* MEMORY_THRESHOLD comes from the environment: the default and a stricter one
Thresholds == {DEFAULT_THRESHOLD, DEFAULT_THRESHOLD + 15}

\* path is the key of photo_scores: no two rows share it. The rows come back
\* in ascending or in descending path order.
NextPaths(its) ==
    IF its = <<>> THEN {1, MaxItems}
    ELSE IF its[1].path = 1 THEN {Len(its) + 1}
    ELSE {MaxItems - Len(its)}

InitLoad ==
    /\ items = <<>>
    /\ MEMORY_THRESHOLD \in Thresholds
    /\ call = Idle
    /\ ret = Idle
    /\ loop = Idle
    /\ conv = Idle
    /\ render = Idle
    /\ dither = Idle
    /\ CYCLE_STATES = NoStates
    /\ LAST_PHOTO_DATE = ""
    /\ STARTUP_SELECTED_PHOTOS = <<>>
    /\ CYCLE_PHOTOS = <<>>
    /\ CYCLE_IDX = 0
    /\ CYCLE_LOCK = None
    /\ threads = <<>>
    /\ clock = [now |-> 0, date |-> 0]
    /\ served = <<>>
    /\ join_call = Idle

----------------------------------------------------------------------------
(* Selection runs: rows are loaded, then one selection is called *)

\* rows of photo_scores: (month, day, memory_score, probe of the image file)
Rows ==
    {<<7, 4, Some(85), "landscape">>, <<7, 4, Some(40), "landscape">>,
     <<7, 4, Some(90), "portrait">>,  <<7, 4, Some(70), "portrait">>,
     <<7, 3, Some(90), "unreadable">>, <<12, 31, Some(85), "portrait">>,
     <<2, 29, Some(90), "landscape">>}

LoadRow ==
    /\ call = Idle
    /\ Len(items) < MaxItems
    /\ \E path \in NextPaths(items), row \in Rows :
          items' = Append(items, Item(path, row[1], row[2], row[3], row[4]))
    /\ UNCHANGED <<MEMORY_THRESHOLD, call, ret, loop, conv, compositorVars, serverVars>>

CallFlat ==
    /\ call = Idle
    /\ \E today \in Todays, count \in 0..MaxCount :
          /\ call' = [kind |-> "choose_photos_for_today", today |-> today,
                      count |-> count, passed |-> <<items>>]
          /\ ret' \in choose_photos_for_today(items, MEMORY_THRESHOLD,
                                              today, count)
    /\ items' = CallerList(items)
    /\ UNCHANGED <<MEMORY_THRESHOLD, loop, conv, compositorVars, serverVars>>

CallBalanced ==
    /\ call = Idle
    /\ \E today \in Todays,
          landscape_count \in 0..MaxOrient, portrait_count \in 0..MaxOrient :
          /\ call' = [kind |-> "choose_photos_by_orientation",
                      today |-> today,
                      landscape_count |-> landscape_count,
                      portrait_count |-> portrait_count,
                      passed |-> <<items>>]
          /\ ret' \in choose_photos_by_orientation(items, MEMORY_THRESHOLD,
                          today, landscape_count, portrait_count)
    /\ items' = CallerList(items)
    /\ UNCHANGED <<MEMORY_THRESHOLD, loop, conv, compositorVars, serverVars>>

Next == LoadRow \/ CallFlat \/ CallBalanced

Spec == InitLoad /\ [][Next]_vars

----------------------------------------------------------------------------
(* Selection runs on records of the days around 29 February *)

LeapRows ==
    {<<2, 29, Some(90), "landscape">>, <<2, 29, Some(85), "portrait">>,
     <<3, 1, Some(85), "portrait">>,   <<2, 28, Some(85), "landscape">>,
     <<3, 1, Some(40), "landscape">>}

LoadLeapRow ==
    /\ call = Idle
    /\ Len(items) < MaxItems
    /\ \E path \in NextPaths(items), row \in LeapRows :
          items' = Append(items, Item(path, row[1], row[2], row[3], row[4]))
    /\ UNCHANGED <<MEMORY_THRESHOLD, call, ret, loop, conv, compositorVars, serverVars>>

NextLeap == LoadLeapRow \/ CallFlat \/ CallBalanced

SpecLeap == InitLoad /\ [][NextLeap]_vars

----------------------------------------------------------------------------
(* Two calls in a row: the caller passes the same list object again *)

\* the selection just called is called once more with the same arguments
CallAgain ==
    /\ call.kind # "none"
    /\ Len(call.passed) = 1
    /\ call' = [call EXCEPT !.passed = Append(@, items)]
    /\ ret' \in IF call.kind = "choose_photos_for_today"
                 THEN choose_photos_for_today(items, MEMORY_THRESHOLD,
                                              call.today, call.count)
                 ELSE choose_photos_by_orientation(items, MEMORY_THRESHOLD,
                          call.today, call.landscape_count,
                          call.portrait_count)
    /\ items' = CallerList(items)
    /\ UNCHANGED <<MEMORY_THRESHOLD, loop, conv, compositorVars, serverVars>>

InitCalls == InitLoad /\ MEMORY_THRESHOLD = DEFAULT_THRESHOLD

NextCalls == LoadRow \/ CallFlat \/ CallBalanced \/ CallAgain

SpecCalls == InitCalls /\ [][NextCalls]_vars

----------------------------------------------------------------------------
(* The backtracking loop, one iteration at a time *)

\* target_md and target_doy are computed, then the loop starts at offset 0
StartLoop ==
    /\ loop = Idle
    /\ \E today \in CalendarDays :
          LET target_doy == md_to_day_of_year(FmtMd(today[1], today[2]))
          IN  loop' = IF target_doy = None
                      THEN [kind |-> "raise", today |-> today]
                      ELSE [kind |-> "loop", today |-> today,
                            target_doy |-> target_doy[1], offset |-> 0,
                            doy |-> None, md |-> <<>>, visited |-> {}]
    /\ UNCHANGED <<items, MEMORY_THRESHOLD, call, ret, conv, compositorVars, serverVars>>

\* one iteration of "for offset in range(0, 365)" that ends in "continue"
LoopIteration ==
    /\ loop.kind = "loop"
    /\ loop.offset < BACKTRACK_DAYS
    /\ LET doy == BacktrackDoy(loop.target_doy, loop.offset)
           md  == day_of_year_to_md(doy)
       IN  loop' = [loop EXCEPT !.offset = @ + 1, !.doy = Some(doy),
                                !.md = md,
                                !.visited = IF loop.md = <<>> THEN @
                                             ELSE @ \cup {loop.md}]
    /\ UNCHANGED <<items, MEMORY_THRESHOLD, call, ret, conv, compositorVars, serverVars>>

\* the iteration found candidates and the function returns from the loop
LoopReturn ==
    /\ loop.kind = "loop"
    /\ loop.doy # None
    /\ loop' = [loop EXCEPT !.kind = "returned"]
    /\ UNCHANGED <<items, MEMORY_THRESHOLD, call, ret, conv, compositorVars, serverVars>>

\* range(0, 365) is exhausted: the code after the loop runs
LoopExhausted ==
    /\ loop.kind = "loop"
    /\ loop.offset >= BACKTRACK_DAYS
    /\ loop' = [loop EXCEPT !.kind = "fallback"]
    /\ UNCHANGED <<items, MEMORY_THRESHOLD, call, ret, conv, compositorVars, serverVars>>

NextLoop == StartLoop \/ LoopIteration \/ LoopReturn \/ LoopExhausted

SpecLoop == InitLoad /\ [][NextLoop]_vars

----------------------------------------------------------------------------
(* Day-of-year conversions applied one after the other *)

\* md -> day of year -> md
ConvertMd ==
    /\ conv = Idle
    /\ \E today \in CalendarDays :
          LET md  == FmtMd(today[1], today[2])
              day == md_to_day_of_year(md)
          IN  conv' = [kind |-> "md", input |-> md, mid |-> day,
                       output |-> IF day = None THEN <<>>
                                  ELSE day_of_year_to_md(day[1])]
    /\ UNCHANGED <<items, MEMORY_THRESHOLD, call, ret, loop, compositorVars, serverVars>>

\* day of year -> md -> day of year
ConvertDay ==
    /\ conv = Idle
    /\ \E day \in 1..BACKTRACK_DAYS :
          LET md == day_of_year_to_md(day)
          IN  conv' = [kind |-> "day", input |-> day, mid |-> md,
                       output |-> md_to_day_of_year(md)]
    /\ UNCHANGED <<items, MEMORY_THRESHOLD, call, ret, loop, compositorVars, serverVars>>

NextDoy == ConvertMd \/ ConvertDay

SpecDoy == InitLoad /\ [][NextDoy]_vars

----------------------------------------------------------------------------
(* Properties of the selection runs *)

FlatReturned ==
    call.kind = "choose_photos_for_today" /\ ret.kind = "return"

BalancedReturned ==
    call.kind = "choose_photos_by_orientation" /\ ret.kind = "return"

\* the records of the input on month/day md that are above the threshold
QualifyingOn(md) ==
    {i \in 1..Len(items) :
        items[i].md = md /\ items[i].memory > MEMORY_THRESHOLD}

\* C1 as stated: unless the diagnostics report the global fallback, every
\* photo returned by flat selection has memory > threshold.
C1_ThresholdInvariant ==
    (FlatReturned /\ ~ret.info.fallback_global_max)
        => \A i \in 1..Len(ret.chosen) :
              ret.chosen[i].memory > MEMORY_THRESHOLD

\* C1 amended: unless the diagnostics report the global fallback, a returned
\* photo has memory > threshold, or the chosen day holds k < count records
\* above the threshold and the photo is a padding entry after the first k.
C1_ThresholdUnlessPadded ==
    (FlatReturned /\ ~ret.info.fallback_global_max)
        => LET k == Cardinality(QualifyingOn(ret.info.used_md))
           IN  \A i \in 1..Len(ret.chosen) :
                  \/ ret.chosen[i].memory > MEMORY_THRESHOLD
                  \/ k < call.count /\ i > k

\* a dated return that holds a qualifying photo followed by a padding entry
C1_Witness ==
    /\ FlatReturned
    /\ ~ret.info.fallback_global_max
    /\ Len(ret.chosen) = 2
    /\ ret.chosen[1].memory > MEMORY_THRESHOLD
    /\ ret.chosen[2].memory <= MEMORY_THRESHOLD

\* the input list holds no two records with the same path
DistinctPaths(s) ==
    \A i, j \in 1..Len(s) : i # j => s[i].path # s[j].path

\* C2: for an input with pairwise distinct paths, the list returned by flat
\* selection (dated, padded or global fallback) and the list returned by
\* balanced selection never hold two entries with the same path.
C2_NoDuplicates ==
    (ret.kind = "return" /\ DistinctPaths(items)) => DistinctPaths(ret.chosen)

\* a padded flat return of two entries of the same day
C2_Witness ==
    /\ FlatReturned
    /\ ~ret.info.fallback_global_max
    /\ ret.info.candidate_count < call.count
    /\ Len(ret.chosen) = 2
    /\ DistinctPaths(items)

\* month/days of a non-leap year, as md strings
NonLeapMds == {FmtMd(day[1], day[2]) : day \in NonLeapDays}

\* the input records above the threshold, on a non-leap month/day, whose
\* image probes as the given orientation
QualifyingProbe(probe) ==
    {i \in 1..Len(items) :
        /\ items[i].md \in NonLeapMds
        /\ items[i].memory > MEMORY_THRESHOLD
        /\ items[i].probe = probe}

CountProbe(s, probe) == Cardinality({i \in 1..Len(s) : s[i].probe = probe})

\* C3: if the records on the 365 non-leap days hold at least landscape_count
\* above-threshold landscape and at least portrait_count above-threshold
\* portrait records, balanced selection returns exactly landscape_count
\* landscape and portrait_count portrait photos, all above the threshold,
\* and nothing else.
C3_BalancedSufficiency ==
    (/\ BalancedReturned
     /\ Cardinality(QualifyingProbe("landscape")) >= call.landscape_count
     /\ Cardinality(QualifyingProbe("portrait")) >= call.portrait_count)
        => /\ Len(ret.chosen) = call.landscape_count + call.portrait_count
           /\ CountProbe(ret.chosen, "landscape") = call.landscape_count
           /\ CountProbe(ret.chosen, "portrait") = call.portrait_count
           /\ \A i \in 1..Len(ret.chosen) :
                 ret.chosen[i].memory > MEMORY_THRESHOLD

\* one landscape and one portrait asked for and found on two different days
C3_Witness ==
    /\ BalancedReturned
    /\ call.landscape_count = 1 /\ call.portrait_count = 1
    /\ Cardinality(QualifyingProbe("landscape")) >= 1
    /\ Cardinality(QualifyingProbe("portrait")) >= 1
    /\ Len(ret.chosen) = 2
    /\ ret.chosen[1].md # ret.chosen[2].md

\* the number of the month/day in a non-leap year, by the calendar
MonthDays == <<31, 28, 31, 30, 31, 30, 31, 31, 30, 31, 30, 31>>

RECURSIVE DaysBeforeMonth(_)
DaysBeforeMonth(m) ==
    IF m = 1 THEN 0 ELSE DaysBeforeMonth(m - 1) + MonthDays[m - 1]

DayNumber(day) == DaysBeforeMonth(day[1]) + day[2]

\* how many days one steps back from the date today to reach month/day day,
\* one calendar day per step and from 01-01 to 12-31; 29 February lies
\* between 02-28 and 03-01 and is met only as the date one starts from
StepsBack(today, day) ==
    IF day = today THEN 0
    ELSE IF day = <<2, 29>> THEN 365
    ELSE IF today = <<2, 29>>
         THEN LET back == (DayNumber(<<3, 1>>) - DayNumber(day)) % 365
              IN  IF back = 0 THEN 365 ELSE back
    ELSE (DayNumber(today) - DayNumber(day)) % 365

\* the calendar days of the input that hold a record above the threshold
QualifyingDays ==
    {day \in CalendarDays : QualifyingOn(FmtMd(day[1], day[2])) # {}}

\* the nearest of them counting backward from today, within 365 steps
NearestDays(today) ==
    {day \in QualifyingDays :
        /\ StepsBack(today, day) < 365
        /\ \A other \in QualifyingDays :
              StepsBack(today, day) <= StepsBack(today, other)}

\* what C4 says of a flat return when day is the nearest qualifying day
NearestDayRule(day) ==
    LET md == FmtMd(day[1], day[2])
    IN  /\ ~ret.info.fallback_global_max
        /\ ret.info.used_md = md
        /\ ret.info.day_offset = Some(-StepsBack(call.today, day))
        /\ \A i \in 1..Len(ret.chosen) : ret.chosen[i].md = md
        /\ Cardinality(QualifyingOn(md)) >= call.count
              => /\ Len(ret.chosen) = call.count
                 /\ DistinctPaths(ret.chosen)
                 /\ \A i \in 1..Len(ret.chosen) :
                       ret.chosen[i].memory > MEMORY_THRESHOLD

\* C4 as stated: flat selection returns photos only from the bucket of the
\* first month/day, counting backward from the target date, that holds a
\* record above the threshold; used_md is that month/day, day_offset minus
\* the number of days stepped back, fallback_global_max false; and when the
\* bucket holds at least count qualifying records the result is exactly
\* count distinct qualifying records of it.
C4_NearestDay ==
    FlatReturned => \A day \in NearestDays(call.today) : NearestDayRule(day)

\* the same for target dates other than 29 February
C4_NearestDayOfNonLeapTarget ==
    (FlatReturned /\ call.today # <<2, 29>>)
        => \A day \in NearestDays(call.today) : NearestDayRule(day)

\* a dated return from the day before the target date
C4_Witness ==
    /\ FlatReturned
    /\ call.today = <<7, 4>>
    /\ ret.info.used_md = FmtMd(7, 3)
    /\ Len(ret.chosen) = 1

Min(a, b) == IF a < b THEN a ELSE b

\* the positions of the input whose record is entry i of the result
\* (a record is known by its path)
InResult(i) == \E j \in 1..Len(ret.chosen) : ret.chosen[j] = items[i]

\* C5: when no record on any of the 365 backtracked month/days is above the
\* threshold, flat selection returns the first min(count, number of records)
\* records of the whole input ranked by memory descending, whatever their
\* date, and reports fallback_global_max = true.
C5_GlobalFallback ==
    (/\ FlatReturned
     /\ \A i \in 1..Len(items) :
           items[i].md \in NonLeapMds => items[i].memory <= MEMORY_THRESHOLD)
        => /\ ret.info.fallback_global_max
           /\ Len(ret.chosen) = Min(call.count, Len(items))
           /\ DistinctPaths(ret.chosen)
           /\ \A j \in 1..Len(ret.chosen) : ret.chosen[j] \in Range(items)
           /\ \A j \in 1..(Len(ret.chosen) - 1) :
                 ret.chosen[j].memory >= ret.chosen[j + 1].memory
           /\ \A i \in 1..Len(items) :
                 ~InResult(i) =>
                    \A j \in 1..Len(ret.chosen) :
                       items[i].memory <= ret.chosen[j].memory

\* a global fallback that ranks three records of two days and keeps two
C5_Witness ==
    /\ FlatReturned
    /\ ret.info.fallback_global_max
    /\ Len(items) = 3
    /\ Len(ret.chosen) = 2
    /\ ret.chosen[1].md # ret.chosen[2].md
    /\ ret.chosen[1].memory > ret.chosen[2].memory
    /\ ret.chosen[1] # items[1]

\* the positions of the input on the day the diagnostics name
UsedBucket == {i \in 1..Len(items) : items[i].md = ret.info.used_md}

\* C6: when the chosen day's bucket holds k qualifying records, 0 < k <
\* count, the result is the k qualifying records followed by the
\* highest-memory remaining records of the same bucket in descending memory
\* order, its length is min(count, size of the bucket), and no record of
\* another day is used.
C6_Padding ==
    (FlatReturned /\ ~ret.info.fallback_global_max) =>
        LET k == Cardinality(QualifyingOn(ret.info.used_md))
            n == Len(ret.chosen)
        IN  (0 < k /\ k < call.count) =>
              /\ n = Min(call.count, Cardinality(UsedBucket))
              /\ DistinctPaths(ret.chosen)
              /\ \A j \in 1..n : \E i \in UsedBucket : items[i] = ret.chosen[j]
              /\ \A j \in 1..k : ret.chosen[j].memory > MEMORY_THRESHOLD
              /\ \A j \in (k + 1)..n : ret.chosen[j].memory <= MEMORY_THRESHOLD
              /\ \A j \in (k + 1)..(n - 1) :
                    ret.chosen[j].memory >= ret.chosen[j + 1].memory
              /\ \A i \in UsedBucket :
                    ~InResult(i) =>
                       \A j \in 1..n : items[i].memory <= ret.chosen[j].memory

\* one qualifying record padded with the better of two others of its day,
\* which was loaded after the worse one
C6_Witness ==
    /\ FlatReturned
    /\ ~ret.info.fallback_global_max
    /\ Cardinality(QualifyingOn(ret.info.used_md)) = 1
    /\ call.count = 2
    /\ Cardinality(UsedBucket) = 3
    /\ Len(ret.chosen) = 2
    /\ ret.chosen[2].memory = 70
    /\ \E i \in 1..Len(items) : i < Len(items) /\ items[i].memory = 40
    /\ items[Len(items)] = ret.chosen[2]

\* every calendar date, 29 February included, has a day of year
EveryDateParses ==
    \A day \in CalendarDays : md_to_day_of_year(FmtMd(day[1], day[2])) # None

\* C9: called with an empty record list both selections fail with an error
\* and return no selection; for every non-empty list and every calendar
\* target date they return a (list, diagnostics) pair without raising.
C9_EmptyInput ==
    (call.kind # "none") =>
        IF items = <<>>
        THEN ret.kind = "raise" /\ "chosen" \notin DOMAIN ret
        ELSE /\ ret.kind = "return" /\ {"chosen", "info"} \subseteq DOMAIN ret
             /\ EveryDateParses

\* flat selection raised on the empty list
C9_Witness ==
    /\ call.kind = "choose_photos_for_today"
    /\ items = <<>>
    /\ ret.kind = "raise"

\* the records on the 365 non-leap days cannot meet both orientation counts,
\* so the loop of balanced selection runs out and the global fill runs
BacktrackFallsShort ==
    \/ Cardinality(QualifyingProbe("landscape")) < call.landscape_count
    \/ Cardinality(QualifyingProbe("portrait")) < call.portrait_count

\* C10 as stated: the diagnostics of balanced selection mark
\* fallback_global_max true whenever the backtrack ran out without meeting
\* both orientation counts and the result was filled from the global
\* ranking, and false when the backtrack met both counts. The flag is read
\* as main reads it, a missing key reading as false.
C10_BalancedFallbackFlag ==
    BalancedReturned =>
        (Get(ret.info, "fallback_global_max", FALSE) <=> BacktrackFallsShort)

\* C11 as stated: in the list balanced selection returns, every landscape
\* photo precedes every portrait photo, the runs where the global fill added
\* entries included.
C11_LandscapeFirst ==
    BalancedReturned =>
        \A i, j \in 1..Len(ret.chosen) :
            (/\ is_landscape(ret.chosen[i]) = Some(TRUE)
             /\ is_landscape(ret.chosen[j]) = Some(FALSE)) => i < j

\* C12 as stated: whenever the input holds at least landscape_count +
\* portrait_count records, all of distinct paths, balanced selection returns
\* exactly landscape_count + portrait_count entries.
C12_BalancedLength ==
    (/\ BalancedReturned
     /\ DistinctPaths(items)
     /\ Len(items) >= call.landscape_count + call.portrait_count) =>
        Len(ret.chosen) = call.landscape_count + call.portrait_count

----------------------------------------------------------------------------
(* Properties of the backtracking loop and of the conversions *)

\* C7: for every target date the backtracking loop runs at most 365
\* iterations, the day of year of every iteration lies in 1..365, and no
\* month/day is visited twice before the global fallback is taken.
C7_BacktrackBound ==
    (loop.kind \in {"loop", "returned", "fallback"}) =>
        /\ loop.offset <= 365
        /\ Cardinality(loop.visited) <= 365
        /\ loop.doy # None =>
              /\ loop.doy[1] \in 1..365
              /\ loop.md \notin loop.visited
              /\ Cardinality(loop.visited) = loop.offset - 1

\* the loop ran out after wrapping from 01-01 to 12-31 on its way
C7_Witness ==
    /\ loop.kind = "fallback"
    /\ loop.today = <<2, 29>>
    /\ loop.offset = 365
    /\ FmtMd(12, 31) \in loop.visited
    /\ loop.md = FmtMd(3, 2)

\* C8: for every MM-DD of a non-leap calendar, converting to the day of
\* year and back yields the same string; and for every d in 1..365,
\* converting to MM-DD and back yields d.
C8_RoundTrip ==
    /\ (conv.kind = "md" /\ conv.input \in NonLeapMds) =>
          conv.output = conv.input
    /\ conv.kind = "day" => conv.output = Some(conv.input)

\* 12-31 went through day 365 and came back
C8_Witness ==
    /\ conv.kind = "md"
    /\ conv.input = FmtMd(12, 31)
    /\ conv.mid = Some(365)
    /\ conv.output = FmtMd(12, 31)

----------------------------------------------------------------------------
(* Binary floating point. Python's float and JavaScript's Number are IEEE  *)
(* 754 doubles (53 significant bits); a Float32Array element holds 24.     *)
(* A natural number is the sequence of its limbs, least significant first, *)
(* without leading zero limbs; a float is [neg, m, e], standing for        *)
(* m * 2^e or its negative, with m odd or zero.                            *)

LimbBits == 15
LimbBase == 2 ^ LimbBits

RECURSIVE NatOf(_)
NatOf(n) ==
    IF n = 0 THEN <<>> ELSE <<n % LimbBase>> \o NatOf(n \div LimbBase)

RECURSIVE IntOf(_)
IntOf(a) ==
    IF a = <<>> THEN 0 ELSE a[1] + LimbBase * IntOf(Tail(a))

RECURSIVE Trim(_)
Trim(a) ==
    IF a = <<>> THEN <<>>
    ELSE IF a[Len(a)] = 0 THEN Trim(SubSeq(a, 1, Len(a) - 1))
    ELSE a

Rest(a) == IF a = <<>> THEN <<>> ELSE Tail(a)
Low(a) == IF a = <<>> THEN 0 ELSE a[1]

\* -1, 0 or 1 as a < b, a = b or a > b
RECURSIVE NatCmp(_, _)
NatCmp(a, b) ==
    IF Len(a) # Len(b) THEN (IF Len(a) < Len(b) THEN -1 ELSE 1)
    ELSE IF a = <<>> THEN 0
    ELSE IF a[Len(a)] # b[Len(b)]
         THEN (IF a[Len(a)] < b[Len(b)] THEN -1 ELSE 1)
    ELSE NatCmp(Trim(SubSeq(a, 1, Len(a) - 1)), Trim(SubSeq(b, 1, Len(b) - 1)))

RECURSIVE AddCarry(_, _, _)
AddCarry(a, b, carry) ==
    IF a = <<>> /\ b = <<>> THEN NatOf(carry)
    ELSE LET t == Low(a) + Low(b) + carry
         IN  <<t % LimbBase>> \o AddCarry(Rest(a), Rest(b), t \div LimbBase)

NatAdd(a, b) == AddCarry(a, b, 0)

\* a - b for a >= b
RECURSIVE SubBorrow(_, _, _)
SubBorrow(a, b, borrow) ==
    IF a = <<>> THEN <<>>
    ELSE LET t == a[1] - Low(b) - borrow
         IN  IF t < 0
             THEN <<t + LimbBase>> \o SubBorrow(Tail(a), Rest(b), 1)
             ELSE <<t>> \o SubBorrow(Tail(a), Rest(b), 0)

NatSub(a, b) == Trim(SubBorrow(a, b, 0))

\* a * k for 0 <= k <= LimbBase
RECURSIVE MulCarry(_, _, _)
MulCarry(a, k, carry) ==
    IF a = <<>> THEN NatOf(carry)
    ELSE LET t == a[1] * k + carry
         IN  <<t % LimbBase>> \o MulCarry(Tail(a), k, t \div LimbBase)

NatMulSmall(a, k) == Trim(MulCarry(a, k, 0))

RECURSIVE NatMul(_, _)
NatMul(a, b) ==
    IF a = <<>> \/ b = <<>> THEN <<>>
    ELSE LET high == NatMul(a, Tail(b))
         IN  NatAdd(NatMulSmall(a, b[1]),
                    IF high = <<>> THEN <<>> ELSE <<0>> \o high)

\* quotient and remainder of a by d, 1 <= d <= LimbBase
RECURSIVE DivLimbs(_, _)
DivLimbs(a, d) ==
    IF a = <<>> THEN [q |-> <<>>, r |-> 0]
    ELSE LET high == DivLimbs(Tail(a), d)
             t    == high.r * LimbBase + a[1]
         IN  [q |-> <<t \div d>> \o high.q, r |-> t % d]

NatDivSmall(a, d) ==
    LET qr == DivLimbs(a, d) IN [q |-> Trim(qr.q), r |-> qr.r]

\* a * 2^k and the integer part of a / 2^k
NatShl(a, k) ==
    IF a = <<>> THEN <<>>
    ELSE [i \in 1..(k \div LimbBits) |-> 0] \o NatMulSmall(a, 2 ^ (k % LimbBits))

NatShr(a, k) ==
    IF Len(a) <= k \div LimbBits THEN <<>>
    ELSE NatDivSmall(SubSeq(a, k \div LimbBits + 1, Len(a)), 2 ^ (k % LimbBits)).q

\* the number of bits of a limb and of a natural
RECURSIVE LimbLen(_)
LimbLen(n) == IF n = 0 THEN 0 ELSE 1 + LimbLen(n \div 2)

BitLen(a) ==
    IF a = <<>> THEN 0 ELSE LimbBits * (Len(a) - 1) + LimbLen(a[Len(a)])

\* a / 2^k rounded to the nearest integer, a tie to the even one
RoundShr(a, k) ==
    LET q    == NatShr(a, k)
        rem  == NatSub(a, NatShl(q, k))
        half == NatCmp(rem, NatShl(<<1>>, k - 1))
    IN  IF half > 0 \/ (half = 0 /\ Low(q) % 2 = 1) THEN NatAdd(q, <<1>>)
        ELSE q

\* the number of trailing zero bits of a limb n > 0
RECURSIVE LowZeros(_)
LowZeros(n) == IF n % 2 = 1 THEN 0 ELSE 1 + LowZeros(n \div 2)

FloatZero == [neg |-> FALSE, m |-> <<>>, e |-> 0]

\* the same number with m odd
RECURSIVE Canon(_)
Canon(x) ==
    IF x.m = <<>> THEN FloatZero
    ELSE IF x.m[1] = 0
         THEN Canon([neg |-> x.neg, m |-> Tail(x.m), e |-> x.e + LimbBits])
    ELSE LET z == LowZeros(x.m[1])
         IN  [neg |-> x.neg, m |-> NatShr(x.m, z), e |-> x.e + z]

\* an integer as a float
FloatOf(n) ==
    Canon([neg |-> n < 0, m |-> NatOf(IF n < 0 THEN -n ELSE n), e |-> 0])

\* x rounded to p significant bits, to nearest, a tie to even
RoundTo(x, p) ==
    LET len == BitLen(x.m)
    IN  IF len <= p THEN Canon(x)
        ELSE Canon([neg |-> x.neg, m |-> RoundShr(x.m, len - p),
                    e |-> x.e + (len - p)])

Negate(x) == IF x.m = <<>> THEN x ELSE [x EXCEPT !.neg = ~x.neg]

\* the exact sum and the exact product
ExactAdd(x, y) ==
    LET e  == IF x.e < y.e THEN x.e ELSE y.e
        mx == NatShl(x.m, x.e - e)
        my == NatShl(y.m, y.e - e)
    IN  IF x.neg = y.neg
        THEN Canon([neg |-> x.neg, m |-> NatAdd(mx, my), e |-> e])
        ELSE IF NatCmp(mx, my) >= 0
             THEN Canon([neg |-> x.neg, m |-> NatSub(mx, my), e |-> e])
        ELSE Canon([neg |-> y.neg, m |-> NatSub(my, mx), e |-> e])

ExactMul(x, y) ==
    Canon([neg |-> x.neg # y.neg, m |-> NatMul(x.m, y.m), e |-> x.e + y.e])

\* x < y
Less(x, y) ==
    LET d == ExactAdd(x, Negate(y)) IN d.m # <<>> /\ d.neg

DoubleBits == 53
SingleBits == 24

\* the operations of a double
DAdd(x, y) == RoundTo(ExactAdd(x, y), DoubleBits)
DSub(x, y) == RoundTo(ExactAdd(x, Negate(y)), DoubleBits)
DMul(x, y) == RoundTo(ExactMul(x, y), DoubleBits)

\* n / d for integers n >= 0 and 1 <= d <= LimbBase: the quotient is cut
\* below its 53rd bit and a last bit records whether anything was cut off
DDivInt(n, d) ==
    LET shift  == 5 * LimbBits
        qr     == NatDivSmall(NatShl(NatOf(n), shift), d)
        sticky == IF qr.r = 0 THEN 0 ELSE 1
    IN  RoundTo([neg |-> FALSE,
                 m   |-> NatAdd(NatMulSmall(qr.q, 2), NatOf(sticky)),
                 e   |-> -(shift + 1)], DoubleBits)

\* Math.fround: what a Float32Array element keeps of a value stored in it
Fround(x) == RoundTo(x, SingleBits)

\* int(x) of Python: the integer part, toward zero
IntPart(x) ==
    LET mag == IF x.e >= 0 THEN IntOf(NatShl(x.m, x.e))
               ELSE IntOf(NatShr(x.m, -x.e))
    IN  IF x.neg THEN -mag ELSE mag

----------------------------------------------------------------------------
(* The compositor: render_image and its helpers *)

LANDSCAPE_CANVAS == <<2048, 1536>>
PORTRAIT_CANVAS == <<1536, 2048>>
TEXT_AREA_HEIGHT == 180
padding_x == 48

\* bounds of the compositor runs
MaxSide == 9
MaxText == 4
MaxWidth == 4
MaxLines == 3

\* draw.textlength(text, font): a character is given by the advance width
\* of its glyph, and the width of a text is the sum over its characters
RECURSIVE textlength(_)
textlength(text) ==
    IF text = <<>> THEN 0 ELSE text[1] + textlength(Tail(text))

\* mutant: the loop does not break when max_lines lines are finished
RECURSIVE WrapLoop_NoBreak(_, _, _, _, _, _)
WrapLoop_NoBreak(text, i, lines, line, max_width, max_lines) ==
    IF i > Len(text) THEN [lines |-> lines, line |-> line]
    ELSE LET test == Append(line, text[i])
         IN  IF textlength(test) <= max_width
             THEN WrapLoop_NoBreak(text, i + 1, lines, test, max_width,
                                   max_lines)
             ELSE WrapLoop_NoBreak(text, i + 1,
                      IF line # <<>> THEN Append(lines, line) ELSE lines,
                      <<text[i]>>, max_width, max_lines)

\* "for ch in text" of wrap_text_chinese from the i-th character on: the
\* lines finished so far and the line being filled when the loop ends
RECURSIVE WrapLoop(_, _, _, _, _, _)
WrapLoop(text, i, lines, line, max_width, max_lines) ==
    IF i > Len(text) THEN [lines |-> lines, line |-> line]
    ELSE LET test == Append(line, text[i])
         IN  IF textlength(test) <= max_width
             THEN WrapLoop(text, i + 1, lines, test, max_width, max_lines)
             ELSE LET appended == IF line # <<>> THEN Append(lines, line)
                                  ELSE lines
                  IN  IF Len(appended) >= max_lines
                      THEN [lines |-> appended, line |-> <<text[i]>>]
                      ELSE WrapLoop(text, i + 1, appended, <<text[i]>>,
                                    max_width, max_lines)

wrap_text_chinese(text, max_width, max_lines) ==
    IF text = <<>> THEN <<>>
    ELSE LET end == WrapLoop(text, 1, <<>>, <<>>, max_width, max_lines)
         IN  IF end.line # <<>> /\ Len(end.lines) < max_lines
             THEN Append(end.lines, end.line)
             ELSE end.lines

\* str.strip() of a text whose characters are " " and letters
RECURSIVE StripLeft(_)
StripLeft(s) ==
    IF s # <<>> /\ s[1] = " " THEN StripLeft(Tail(s)) ELSE s

RECURSIVE StripRight(_)
StripRight(s) ==
    IF s # <<>> /\ s[Len(s)] = " " THEN StripRight(SubSeq(s, 1, Len(s) - 1))
    ELSE s

Strip(s) == StripRight(StripLeft(s))

\* f"{float(v):.5f}" of a coordinate given in millionths of a degree: the
\* hundred-thousandths, the nearest, a tie to even
Fmt5(v) ==
    LET q == v \div 10
        r == v % 10
    IN  IF r > 5 \/ (r = 5 /\ q % 2 = 1) THEN q + 1 ELSE q

\* mutant: a coordinate is tested for truth, not for None
format_location_Truthy(lat, lon, city) ==
    IF city # <<>> /\ Strip(city) # <<>> THEN Strip(city)
    ELSE IF lat \in {None, Some(0)} \/ lon \in {None, Some(0)} THEN <<>>
    ELSE <<Fmt5(lat[1]), ",", " ", Fmt5(lon[1])>>

\* format_location: a text is the sequence of its characters, lat and lon are
\* None or Some(number)
format_location(lat, lon, city) ==
    IF city # <<>> /\ Strip(city) # <<>> THEN Strip(city)
    ELSE IF lat = None \/ lon = None THEN <<>>
    ELSE <<Fmt5(lat[1]), ",", " ", Fmt5(lon[1])>>

\* the larger of two doubles, as max(a, b) of Python: a unless b is larger
DMax(a, b) == IF Less(a, b) THEN b ELSE a

\* mutant: a square source gets the portrait canvas
CanvasOf_SquarePortrait(img_w, img_h) ==
    IF img_w > img_h THEN LANDSCAPE_CANVAS ELSE PORTRAIT_CANVAS

\* canvas_w, canvas_h of render_image
CanvasOf(img_w, img_h) ==
    IF img_w >= img_h THEN LANDSCAPE_CANVAS ELSE PORTRAIT_CANVAS

\* the photo region, the size of the resized image and the crop box
CoverFit(img_w, img_h, canvas) ==
    LET img_area_w == canvas[1]
        img_area_h == canvas[2] - TEXT_AREA_HEIGHT
        scale  == DMax(DDivInt(img_area_w, img_w), DDivInt(img_area_h, img_h))
        draw_w == IntPart(DMul(FloatOf(img_w), scale))
        draw_h == IntPart(DMul(FloatOf(img_h), scale))
        left   == IF (draw_w - img_area_w) \div 2 > 0
                  THEN (draw_w - img_area_w) \div 2 ELSE 0
        top    == IF (draw_h - img_area_h) \div 2 > 0
                  THEN (draw_h - img_area_h) \div 2 ELSE 0
    IN  [img_area |-> <<img_area_w, img_area_h>>,
         resized  |-> <<draw_w, draw_h>>,
         box      |-> [left |-> left, top |-> top,
                       right |-> left + img_area_w,
                       bottom |-> top + img_area_h]]

\* render_image(item): item.size is the size of the image file after
\* exif_transpose, item.side the caption as the advance widths of its
\* characters in font_big. The result names the canvas and what is drawn
\* on it; the date text is left out.
render_image(item) ==
    IF ~item.exists THEN [kind |-> "raise", error |-> "no such image"]
    ELSE
      LET img_w  == item.size[1]
          img_h  == item.size[2]
          canvas == CanvasOf(img_w, img_h)
      IN  IF img_w = 0 \/ img_h = 0
          THEN [kind |-> "raise", error |-> "illegal size"]
          ELSE [kind   |-> "return",
                canvas |-> canvas,
                photo  |-> CoverFit(img_w, img_h, canvas),
                lines  |-> IF item.side # <<>>
                           THEN wrap_text_chinese(item.side,
                                    canvas[1] - 2 * padding_x, 2)
                           ELSE <<>>,
                loc_display |-> format_location(item.lat, item.lon, item.city)]

----------------------------------------------------------------------------
(* Compositor runs: one call of render_image or of one of its helpers *)

\* the advance width of a full-width character in font_big
GLYPH_WIDTH == 48

\* sizes of image files: the small ones and some camera formats
SourceSizes ==
    {<<w, h>> : w, h \in 0..MaxSide}
        \cup {<<4000, 3000>>, <<3000, 4000>>, <<4032, 3024>>, <<6000, 4000>>,
              <<1920, 1080>>, <<1080, 1920>>, <<2048, 1356>>, <<2988, 5312>>,
              <<5312, 2988>>}

\* captions of n full-width characters
Captions == {[i \in 1..n |-> GLYPH_WIDTH] : n \in {0, 1, 30, 31, 40, 41, 60, 61}}

\* coordinates in millionths of a degree
Coordinates == {None, Some(0), Some(31123456), Some(-122000005)}

\* city texts: blanks and letters
Cities == UNION {[1..n -> {" ", "x"}] : n \in 0..3}

\* texts as the advance widths of their characters
Texts == UNION {[1..n -> 1..3] : n \in 0..MaxText}

RenderItems ==
    {[exists |-> TRUE, size |-> size, side |-> [i \in 1..41 |-> GLYPH_WIDTH],
      lat |-> Some(31123456), lon |-> Some(0), city |-> <<>>] :
        size \in SourceSizes}
    \cup {[exists |-> exists, size |-> size, side |-> side,
           lat |-> None, lon |-> None, city |-> <<"x">>] :
            exists \in BOOLEAN, size \in {<<4000, 3000>>, <<3000, 4000>>},
            side \in Captions}

InitCompositor ==
    /\ InitLoad
    /\ MEMORY_THRESHOLD = DEFAULT_THRESHOLD

RenderImage ==
    /\ render = Idle
    /\ \E item \in RenderItems :
          render' = [kind |-> "render_image", item |-> item,
                     result |-> render_image(item)]
    /\ UNCHANGED <<selectionVars, dither, serverVars>>

WrapText ==
    /\ render = Idle
    /\ \E text \in Texts, max_width \in 0..MaxWidth, max_lines \in 0..MaxLines :
          render' = [kind |-> "wrap_text_chinese", text |-> text,
                     max_width |-> max_width, max_lines |-> max_lines,
                     result |-> wrap_text_chinese(text, max_width, max_lines)]
    /\ UNCHANGED <<selectionVars, dither, serverVars>>

FormatLocation ==
    /\ render = Idle
    /\ \E lat \in Coordinates, lon \in Coordinates, city \in Cities :
          render' = [kind |-> "format_location", lat |-> lat, lon |-> lon,
                     city |-> city,
                     result |-> format_location(lat, lon, city)]
    /\ UNCHANGED <<selectionVars, dither, serverVars>>

NextCompositor == RenderImage \/ WrapText \/ FormatLocation

SpecCompositor == InitCompositor /\ [][NextCompositor]_vars

----------------------------------------------------------------------------
(* Properties of the compositor *)

Rendered == render.kind = "render_image" /\ render.result.kind = "return"

\* C13: render_image produces a canvas of exactly 2048x1536 when the source
\* has width >= height, square sources included, and of exactly 1536x2048
\* otherwise; it produces no canvas of any other size.
C13_CanvasPreset ==
    Rendered =>
        /\ render.item.size[1] >= render.item.size[2]
              => render.result.canvas = <<2048, 1536>>
        /\ render.item.size[1] < render.item.size[2]
              => render.result.canvas = <<1536, 2048>>

C13_Witness ==
    /\ Rendered
    /\ render.item.size[1] = render.item.size[2]
    /\ render.result.canvas = <<2048, 1536>>

\* C14 as stated: for every source of positive width and height the photo
\* region is canvas width x (canvas height - 180), 2048x1356 for a 4000x3000
\* source; the resized image is at least as wide and as tall as the region;
\* and the centred crop box lies inside the resized image, so that the
\* pasted photo leaves no pixel of the region uncovered.
C14_CoverFit ==
    Rendered =>
        LET photo == render.result.photo
        IN  /\ photo.img_area = <<render.result.canvas[1],
                                  render.result.canvas[2] - 180>>
            /\ render.item.size = <<4000, 3000>>
                  => photo.img_area = <<2048, 1356>>
            /\ photo.resized[1] >= photo.img_area[1]
            /\ photo.resized[2] >= photo.img_area[2]
            /\ photo.box.left >= 0 /\ photo.box.top >= 0
            /\ photo.box.right = photo.box.left + photo.img_area[1]
            /\ photo.box.bottom = photo.box.top + photo.img_area[2]
            /\ photo.box.right <= photo.resized[1]
            /\ photo.box.bottom <= photo.resized[2]

Wrapped == render.kind = "wrap_text_chinese"

RECURSIVE Concat(_)
Concat(lines) ==
    IF lines = <<>> THEN <<>> ELSE lines[1] \o Concat(Tail(lines))

\* the text can be cut into at most n lines no wider than width
RECURSIVE FitsIn(_, _, _)
FitsIn(text, width, n) ==
    \/ text = <<>>
    \/ /\ n > 0
       /\ \E k \in 1..Len(text) :
             /\ textlength(SubSeq(text, 1, k)) <= width
             /\ FitsIn(SubSeq(text, k + 1, Len(text)), width, n - 1)

WrapRule ==
    LET joined == Concat(render.result)
    IN  /\ Len(render.result) <= render.max_lines
        /\ Len(joined) <= Len(render.text)
        /\ joined = SubSeq(render.text, 1, Len(joined))
        /\ FitsIn(render.text, render.max_width, render.max_lines)
              => joined = render.text
        /\ (\A i \in 1..Len(render.text) : render.text[i] <= render.max_width)
              => \A j \in 1..Len(render.result) :
                    textlength(render.result[j]) <= render.max_width

\* C15 as stated: for every text, glyph widths, max_width and max_lines,
\* wrap_text_chinese returns at most max_lines lines, their concatenation is
\* a prefix of the text and is the whole text when it fits in max_lines
\* lines, and every line is at most max_width wide provided no single
\* character is wider.
C15_Wrapping == Wrapped => WrapRule

\* C15 amended: the same for every max_lines of at least 1.
C15_WrappingOfAtLeastOneLine ==
    (Wrapped /\ render.max_lines >= 1) => WrapRule

C15_Witness ==
    /\ Wrapped
    /\ render.max_lines = 2
    /\ Len(render.result) = 2
    /\ Concat(render.result) # render.text
    /\ \A i \in 1..Len(render.text) : render.text[i] <= render.max_width

Located == render.kind = "format_location"

\* t is s without its leading and trailing blanks
IsTrimOf(t, s) ==
    \E i, j \in 0..Len(s) :
        /\ i + j <= Len(s)
        /\ t = SubSeq(s, i + 1, Len(s) - j)
        /\ \A k \in 1..i : s[k] = " "
        /\ \A k \in (Len(s) - j + 1)..Len(s) : s[k] = " "
        /\ t # <<>> => (t[1] # " " /\ t[Len(t)] # " ")

----------------------------------------------------------------------------
(* applyFourColorDither of the preview page (server.py): a pixel is a      *)
(* triple <<r, g, b>>, data the pixels row by row, err and nextErr the     *)
(* three Float32Arrays each, indexed by channel and then by column.        *)

palette == << <<0, 0, 0>>, <<255, 255, 255>>, <<200, 0, 0>>, <<220, 180, 0>> >>

\* bounds of the dither runs
MaxW == 5
MaxH == 3

Channels == 1..3

\* dist of nearestColor: dr*dr + dg*dg + db*db in doubles
Dist(v, p) ==
    LET dr == DSub(v[1], FloatOf(p[1]))
        dg == DSub(v[2], FloatOf(p[2]))
        db == DSub(v[3], FloatOf(p[3]))
    IN  DAdd(DAdd(DMul(dr, dr), DMul(dg, dg)), DMul(db, db))

\* mutant: the loop leaves out the last palette entry
RECURSIVE NearestFrom_SkipLast(_, _, _, _)
NearestFrom_SkipLast(v, i, bestIndex, bestDist) ==
    IF i > Len(palette) - 1 THEN bestIndex
    ELSE LET dist == Dist(v, palette[i])
         IN  IF bestDist = None \/ Less(dist, bestDist[1])
             THEN NearestFrom_SkipLast(v, i + 1, i, Some(dist))
             ELSE NearestFrom_SkipLast(v, i + 1, bestIndex, bestDist)

\* the loop of nearestColor from palette entry i on; bestDist is None for
\* Infinity
RECURSIVE NearestFrom(_, _, _, _)
NearestFrom(v, i, bestIndex, bestDist) ==
    IF i > Len(palette) THEN bestIndex
    ELSE LET dist == Dist(v, palette[i])
         IN  IF bestDist = None \/ Less(dist, bestDist[1])
             THEN NearestFrom(v, i + 1, i, Some(dist))
             ELSE NearestFrom(v, i + 1, bestIndex, bestDist)

nearestColor(v) == palette[NearestFrom(v, 1, 1, None)]

\* mutant: the upper clamp is 254
Clamp_Low(t) ==
    IF Less(t, FloatOf(0)) THEN FloatOf(0)
    ELSE IF Less(FloatOf(254), t) THEN FloatOf(254) ELSE t

\* r < 0 ? 0 : (r > 255 ? 255 : r)
Clamp(t) ==
    IF Less(t, FloatOf(0)) THEN FloatOf(0)
    ELSE IF Less(FloatOf(255), t) THEN FloatOf(255) ELSE t

\* mutant: the neighbour below and right gets 2/16
DiffusionWeights_Heavy == [right |-> 7, belowLeft |-> 3, below |-> 5, belowRight |-> 2]

\* the sixteenths of the residual given to each neighbour
DiffusionWeights == [right |-> 7, belowLeft |-> 3, below |-> 5, belowRight |-> 1]

\* buf[i] += share for one channel: the sum is formed as a double and
\* stored as a float32
AddTo(row, i, share) == [row EXCEPT ![i] = Fround(DAdd(@, share))]

\* buf[i] += er * (k / 16) on the three channels
AddShare(buf, i, er, k) ==
    <<AddTo(buf[1], i, DMul(er[1], DDivInt(k, 16))),
      AddTo(buf[2], i, DMul(er[2], DDivInt(k, 16))),
      AddTo(buf[3], i, DMul(er[3], DDivInt(k, 16)))>>

ZeroRow(w) ==
    <<[i \in 1..w |-> FloatZero], [i \in 1..w |-> FloatZero],
      [i \in 1..w |-> FloatZero]>>

\* r, g, b of the pixel at (d.x, d.y): data plus accumulated error, clamped
Effective(d) ==
    LET src == d.data[d.y * d.w + d.x + 1]
    IN  <<Clamp(DAdd(FloatOf(src[1]), d.err[1][d.x + 1])),
          Clamp(DAdd(FloatOf(src[2]), d.err[2][d.x + 1])),
          Clamp(DAdd(FloatOf(src[3]), d.err[3][d.x + 1]))>>

\* er, eg, eb
Residual(eff, nc) ==
    <<DSub(eff[1], FloatOf(nc[1])), DSub(eff[2], FloatOf(nc[2])),
      DSub(eff[3], FloatOf(nc[3]))>>

\* the accumulators after the residual of the pixel at (d.x, d.y) is spread
Diffuse(d, er) ==
    LET right == d.x + 1 < d.w
        below == d.y + 1 < d.h
        next1 == IF below /\ d.x > 0
                 THEN AddShare(d.nextErr, d.x, er, DiffusionWeights.belowLeft)
                 ELSE d.nextErr
        next2 == IF below
                 THEN AddShare(next1, d.x + 1, er, DiffusionWeights.below)
                 ELSE next1
    IN  [err     |-> IF right
                     THEN AddShare(d.err, d.x + 2, er, DiffusionWeights.right)
                     ELSE d.err,
         nextErr |-> IF below /\ right
                     THEN AddShare(next2, d.x + 2, er,
                                   DiffusionWeights.belowRight)
                     ELSE next2]

\* one iteration of the loop over x, given the values it computed, and the
\* end of the iteration of the loop over y when the row is finished
DitherPixel(d, eff, nc, er, after) ==
    LET idx    == d.y * d.w + d.x + 1
        rowEnd == d.x + 1 = d.w
        below  == d.y + 1 < d.h
    IN  [d EXCEPT
            !.data[idx] = nc,
            !.err     = IF rowEnd /\ below THEN after.nextErr ELSE after.err,
            !.nextErr = IF rowEnd /\ below THEN ZeroRow(d.w)
                        ELSE after.nextErr,
            !.x       = IF rowEnd THEN 0 ELSE d.x + 1,
            !.y       = IF rowEnd THEN d.y + 1 ELSE d.y,
            !.last    = Some([x |-> d.x, y |-> d.y, src |-> d.data[idx],
                              eff |-> eff, nc |-> nc, er |-> er,
                              errBefore |-> d.err,
                              nextErrBefore |-> d.nextErr,
                              errAfter |-> after.err,
                              nextErrAfter |-> after.nextErr])]

\* the state of applyFourColorDither when it enters its loops
DitherEntry(w, h, data, pass, first) ==
    [kind |-> "dither", w |-> w, h |-> h, image |-> data, data |-> data,
     err |-> ZeroRow(w), nextErr |-> ZeroRow(w), x |-> 0, y |-> 0,
     pass |-> pass, first |-> first, last |-> None]

----------------------------------------------------------------------------
(* Dither runs: the canvas is dithered, and the result dithered again *)

\* colours of canvas pixels besides the palette
Greys == {<<100, 100, 100>>, <<10, 250, 30>>, <<90, 0, 0>>}

\* a canvas is filled with one colour or with two colours in turn
Fillings ==
    {<<c, c>> : c \in Range(palette) \cup Greys}
        \cup {<<palette[1], palette[2]>>, <<palette[3], palette[4]>>,
              <<<<100, 100, 100>>, palette[2]>>}

Canvas(w, h, filling) ==
    [i \in 1..(w * h) |-> IF i % 2 = 1 THEN filling[1] ELSE filling[2]]

InitDither == InitCompositor

StartDither ==
    /\ dither = Idle
    /\ \E w \in 1..MaxW, h \in 1..MaxH, filling \in Fillings :
          dither' = DitherEntry(w, h, Canvas(w, h, filling), 1, None)
    /\ UNCHANGED <<selectionVars, render, serverVars>>

DitherNextPixel ==
    /\ dither.kind = "dither"
    /\ dither.y < dither.h
    /\ \E eff \in {Effective(dither)} :
       \E nc \in {nearestColor(eff)} :
       \E er \in {Residual(eff, nc)} :
       \E after \in {Diffuse(dither, er)} :
          dither' = DitherPixel(dither, eff, nc, er, after)
    /\ UNCHANGED <<selectionVars, render, serverVars>>

DitherAgain ==
    /\ dither.kind = "dither"
    /\ dither.y = dither.h
    /\ dither.pass = 1
    /\ dither' = DitherEntry(dither.w, dither.h, dither.data, 2,
                             Some(dither.data))
    /\ UNCHANGED <<selectionVars, render, serverVars>>

NextDither == StartDither \/ DitherNextPixel \/ DitherAgain

SpecDither == InitDither /\ [][NextDither]_vars

----------------------------------------------------------------------------
(* Properties of the quantizer *)

Dithering == dither.kind = "dither"
PixelDone == Dithering /\ dither.last # None

LastPixel == dither.last[1]

\* the squared Euclidean distance of a value from a palette colour, exactly
ExactDist(v, p) ==
    LET dr == ExactAdd(v[1], FloatOf(-p[1]))
        dg == ExactAdd(v[2], FloatOf(-p[2]))
        db == ExactAdd(v[3], FloatOf(-p[3]))
    IN  ExactAdd(ExactAdd(ExactMul(dr, dr), ExactMul(dg, dg)), ExactMul(db, db))

\* clamp(t, 0, 255), exactly
ExactClamp(t) ==
    IF t.neg THEN FloatZero
    ELSE IF Less(FloatOf(255), t) THEN FloatOf(255) ELSE t

\* the pixels written so far, row by row
DoneCount == dither.y * dither.w + dither.x

\* C17: every pixel applyFourColorDither has written is one of the four
\* palette colours, and it is a palette colour at minimum squared Euclidean
\* distance from the pixel's effective value, the source value plus the
\* accumulated error clamped to 0..255 per channel.
C17_QuantizerOutput ==
    /\ Dithering =>
          \A i \in 1..DoneCount :
              dither.data[i] \in {<<0, 0, 0>>, <<255, 255, 255>>,
                                  <<200, 0, 0>>, <<220, 180, 0>>}
    /\ PixelDone =>
          LET p == LastPixel
          IN  /\ dither.data[p.y * dither.w + p.x + 1] = p.nc
              /\ \A c \in Channels :
                    p.eff[c] = ExactClamp(ExactAdd(FloatOf(p.src[c]),
                                                   p.errBefore[c][p.x + 1]))
              /\ \A q \in {<<0, 0, 0>>, <<255, 255, 255>>, <<200, 0, 0>>,
                           <<220, 180, 0>>} :
                    ~Less(ExactDist(p.eff, q), ExactDist(p.eff, p.nc))

C17_Witness ==
    /\ PixelDone
    /\ LastPixel.nc = <<220, 180, 0>>
    /\ LastPixel.errBefore[1][LastPixel.x + 1] # FloatZero
    /\ LastPixel.src # LastPixel.nc

\* the sum of the entries of a row of floats, exactly
RECURSIVE ExactSum(_)
ExactSum(row) ==
    IF row = <<>> THEN FloatZero ELSE ExactAdd(row[1], ExactSum(Tail(row)))

\* what the accumulators of channel c gained by the last pixel, exactly
Gained(c) ==
    LET p == LastPixel
    IN  ExactAdd(ExactAdd(ExactSum(p.errAfter[c]), ExactSum(p.nextErrAfter[c])),
                 Negate(ExactAdd(ExactSum(p.errBefore[c]),
                                 ExactSum(p.nextErrBefore[c]))))

\* the sixteenths of the residual that go to neighbours inside the image
HasRight == LastPixel.x + 1 < dither.w
HasBelow == LastPixel.y + 1 < dither.h
HasLeft == LastPixel.x > 0

SharesInside ==
    (IF HasRight THEN 7 ELSE 0) + (IF HasBelow /\ HasLeft THEN 3 ELSE 0)
        + (IF HasBelow THEN 5 ELSE 0) + (IF HasBelow /\ HasRight THEN 1 ELSE 0)

\* C18 as stated: for a pixel with all four neighbours inside the image the
\* amounts added to the neighbours sum exactly to effective value minus
\* chosen palette value, per channel; for a border pixel they sum to the
\* residual minus exactly the shares of the neighbours outside.
C18_DiffusionConservation ==
    PixelDone =>
        \A c \in Channels :
            /\ LastPixel.er[c] = ExactAdd(LastPixel.eff[c],
                                          FloatOf(-LastPixel.nc[c]))
            /\ Gained(c) = ExactMul(LastPixel.er[c],
                                    DDivInt(SharesInside, 16))

\* the accumulator cell a neighbour's share of k sixteenths is added to
\* becomes the float32 nearest to its old value plus the share
StoredShare(before, after, c, i, k) ==
    after[c][i] = Fround(ExactAdd(before[c][i],
                                  ExactMul(LastPixel.er[c], DDivInt(k, 16))))

\* C18 amended: the residual is effective value minus chosen palette value;
\* the neighbours inside the image get 7/16, 3/16, 5/16 and 1/16 of it, each
\* accumulator keeping the float32 nearest to its old value plus the share,
\* so that the amounts added sum to the residual (less the shares of the
\* neighbours outside) up to these roundings only; no other accumulator
\* changes.
C18_ConservationUpToRounding ==
    PixelDone =>
        LET p == LastPixel
        IN  \A c \in Channels :
            /\ p.er[c] = ExactAdd(p.eff[c], FloatOf(-p.nc[c]))
            /\ \A i \in 1..dither.w :
                  IF HasRight /\ i = p.x + 2
                  THEN StoredShare(p.errBefore, p.errAfter, c, i, 7)
                  ELSE p.errAfter[c][i] = p.errBefore[c][i]
            /\ \A i \in 1..dither.w :
                  IF HasBelow /\ HasLeft /\ i = p.x
                  THEN StoredShare(p.nextErrBefore, p.nextErrAfter, c, i, 3)
                  ELSE IF HasBelow /\ i = p.x + 1
                  THEN StoredShare(p.nextErrBefore, p.nextErrAfter, c, i, 5)
                  ELSE IF HasBelow /\ HasRight /\ i = p.x + 2
                  THEN StoredShare(p.nextErrBefore, p.nextErrAfter, c, i, 1)
                  ELSE p.nextErrAfter[c][i] = p.nextErrBefore[c][i]

C18_Witness ==
    /\ PixelDone
    /\ HasRight /\ HasBelow /\ HasLeft
    /\ Gained(1) # LastPixel.er[1]

AllPalette(data) == \A i \in 1..Len(data) : data[i] \in Range(palette)

AllZero(buf) ==
    \A c \in Channels : \A i \in 1..Len(buf[c]) : buf[c][i] = FloatZero

\* C19: on an image whose pixels are all palette colours the quantizer
\* returns the same image and every error accumulator stays zero throughout;
\* and dithering the result of a dithering again returns that result.
C19_QuantizerStability ==
    Dithering =>
        /\ AllPalette(dither.image) =>
              /\ dither.data = dither.image
              /\ AllZero(dither.err) /\ AllZero(dither.nextErr)
        /\ (dither.pass = 2 /\ dither.y = dither.h) =>
              dither.data = dither.first[1]

C19_Witness ==
    /\ Dithering
    /\ dither.pass = 2 /\ dither.y = dither.h
    /\ dither.w > 1 /\ dither.h > 1
    /\ dither.data[1] # dither.data[2]
    /\ dither.data = dither.first[1]

----------------------------------------------------------------------------
(* The /today-image endpoint of server.py. A photo is an item of the       *)
(* startup selection; a cache key is "all", "landscape" or "portrait"; an  *)
(* entry of CYCLE_STATES is None while the key is absent, and              *)
(* STARTUP_SELECTED_PHOTOS is None, the empty dictionary, until __main__   *)
(* has stored the three lists. The clock counts the seconds and the days   *)
(* since the process was started.                                          *)

CYCLE_TTL_SEC == 300

\* bounds of the server runs
MaxPhotos == 3
MaxRequests == 3
MaxTicks == 2
MaxDays == 1
MaxThreads == 2

\* seconds between two readings of time.time()
TICK_SEC == 150

\* rdp.TODAY = dt.date.today(), set when the process imports the module:
\* day 0 of the clock
TODAY == 0

\* the calendar date of a day of the clock
DateOf(day) == <<7, 4 + day>>

\* __main__: no item carries an 'orientation' field, so both orientation
\* lists come out empty and a selection of two or more photos is split
\* into its first half, rounded up, at most 5, and the rest
StartupLists(photos) ==
    LET n     == Len(photos)
        half  == IF (n \div 2) + (n % 2) < 5 THEN (n \div 2) + (n % 2) ELSE 5
        split == n >= 2
    IN  [all       |-> photos,
         landscape |-> IF split THEN SubSeq(photos, 1, half) ELSE <<>>,
         portrait  |-> IF split THEN SubSeq(photos, half + 1, n) ELSE <<>>]

\* the dictionary __main__ stores when the selection raised
NoStartupPhotos == [all |-> <<>>, landscape |-> <<>>, portrait |-> <<>>]

\* __main__: every dictionary it can store in _STARTUP_SELECTED_PHOTOS for
\* the loaded items: the balanced selection of 3 + 3 for rdp.TODAY, the flat
\* selection of 6 when that raised, empty lists when both raised
main(its, threshold) ==
    UNION {
      IF balanced.kind = "return" THEN {StartupLists(balanced.chosen)}
      ELSE {IF flat.kind = "return" THEN StartupLists(flat.chosen)
            ELSE NoStartupPhotos :
              flat \in choose_photos_for_today(its, threshold,
                                               DateOf(TODAY), 6)} :
      balanced \in choose_photos_by_orientation(its, threshold,
                                                DateOf(TODAY), 3, 3)}

\* datetime.now().strftime("%Y-%m-%d") on a day of the clock
strftime(day) == ToString(day)

\* cached_idx = state.get('idx', 0)
CachedIdx(state) == state.idx

\* _ensure_cycle_photos(orientation): the new CYCLE_STATES and
\* LAST_PHOTO_DATE, _CYCLE_PHOTOS and _CYCLE_IDX, and whether the entry was
\* built anew
ensure_cycle_photos(cache_key, states, last_date, startup, now, current_date) ==
    LET kept  == IF last_date # current_date THEN NoStates ELSE states
        state == kept[cache_key]
    IN  IF /\ state # None
           /\ state[1].photos # <<>>
           /\ now - state[1].built_at < CYCLE_TTL_SEC
        THEN [states |-> kept, last_date |-> current_date,
              photos |-> state[1].photos, idx |-> CachedIdx(state[1]),
              fresh |-> FALSE]
        ELSE LET photos == Get(startup, cache_key, <<>>)
             IN  [states |-> [kept EXCEPT ![cache_key] =
                                Some([photos |-> photos, idx |-> 0,
                                      built_at |-> now])],
                  last_date |-> current_date,
                  photos |-> photos, idx |-> 0, fresh |-> TRUE]

\* mutant: the cursor is advanced without the modulo
next_idx_NoWrap(idx, photos) == idx + 1

\* next_idx = (_CYCLE_IDX + 1) % len(_CYCLE_PHOTOS)
next_idx(idx, photos) == (idx + 1) % Len(photos)

\* if cache_key in _CYCLE_STATES: _CYCLE_STATES[cache_key]['idx'] = next_idx
StoreIdx(states, cache_key, idx) ==
    IF states[cache_key] = None THEN states
    ELSE [states EXCEPT ![cache_key] = Some([@[1] EXCEPT !.idx = idx])]

\* cache_key = orientation if orientation else 'all'
CacheKey(orientation) == IF orientation = None THEN "all" ELSE orientation[1]

\* the orientation today_image reads from the request: none, or one of two
Orientations == {None, Some("landscape"), Some("portrait")}

\* the response of a request, as far as the rotation decides it
Response(cache_key, status, photo, fresh, day) ==
    [key |-> cache_key, status |-> status, photo |-> photo, fresh |-> fresh,
     date |-> day]

InitServer == InitCompositor

\* the items load_sim_rows returns at startup: records of the day of
\* rdp.TODAY, above or below the threshold, in path order
StartupRows ==
    {<<p, s>> : p \in {"landscape", "portrait", "unreadable"}, s \in {85, 40}}

StartupItems ==
    UNION {{[i \in 1..n |-> Item(i, DateOf(TODAY)[1], DateOf(TODAY)[2],
                                  Some(rows[i][2]), rows[i][1])] :
               rows \in [1..n -> StartupRows]} : n \in 0..MaxPhotos}

\* __main__ before app.run: the selection of the day
Startup ==
    /\ STARTUP_SELECTED_PHOTOS = None
    /\ \E its \in StartupItems :
          \E lists \in main(its, MEMORY_THRESHOLD) :
             STARTUP_SELECTED_PHOTOS' = Some(lists)
    /\ UNCHANGED <<selectionVars, compositorVars, CYCLE_STATES,
                   LAST_PHOTO_DATE, CYCLE_PHOTOS, CYCLE_IDX, CYCLE_LOCK,
                   threads, clock, served, join_call>>

Tick ==
    /\ STARTUP_SELECTED_PHOTOS # None
    /\ clock.now < MaxTicks * TICK_SEC
    /\ clock' = [clock EXCEPT !.now = @ + TICK_SEC]
    /\ UNCHANGED <<selectionVars, compositorVars, CYCLE_STATES,
                   LAST_PHOTO_DATE, STARTUP_SELECTED_PHOTOS, CYCLE_PHOTOS,
                   CYCLE_IDX, CYCLE_LOCK, threads, served, join_call>>

Midnight ==
    /\ STARTUP_SELECTED_PHOTOS # None
    /\ clock.date < MaxDays
    /\ clock' = [clock EXCEPT !.date = @ + 1]
    /\ UNCHANGED <<selectionVars, compositorVars, CYCLE_STATES,
                   LAST_PHOTO_DATE, STARTUP_SELECTED_PHOTOS, CYCLE_PHOTOS,
                   CYCLE_IDX, CYCLE_LOCK, threads, served, join_call>>

\* GET /today-image handled while no other request is: the body of
\* "with _CYCLE_LOCK" and the response
TodayImage ==
    /\ STARTUP_SELECTED_PHOTOS # None
    /\ Len(served) < MaxRequests
    /\ \E orientation \in Orientations :
       \E cache_key \in {CacheKey(orientation)} :
       \E cycle \in {ensure_cycle_photos(cache_key, CYCLE_STATES,
                        LAST_PHOTO_DATE, STARTUP_SELECTED_PHOTOS[1],
                        clock.now, strftime(clock.date))} :
          /\ LAST_PHOTO_DATE' = cycle.last_date
          /\ CYCLE_PHOTOS' = cycle.photos
          /\ IF cycle.photos = <<>>
             THEN /\ CYCLE_STATES' = cycle.states
                  /\ CYCLE_IDX' = cycle.idx
                  /\ served' = Append(served,
                         Response(cache_key, 404, None, cycle.fresh,
                                  clock.date))
             ELSE /\ CYCLE_STATES' =
                        StoreIdx(cycle.states, cache_key,
                                 next_idx(cycle.idx, cycle.photos))
                  /\ CYCLE_IDX' = next_idx(cycle.idx, cycle.photos)
                  /\ served' = Append(served,
                         Response(cache_key, 200,
                                  Some(cycle.photos[cycle.idx + 1]),
                                  cycle.fresh, clock.date))
    /\ UNCHANGED <<selectionVars, compositorVars, STARTUP_SELECTED_PHOTOS,
                   CYCLE_LOCK, threads, clock, join_call>>

NextServer == Startup \/ Tick \/ Midnight \/ TodayImage

SpecServer == InitServer /\ [][NextServer]_vars

----------------------------------------------------------------------------
(* /today-image handled by concurrent threads (Flask serves each request   *)
(* in a thread of its own): one action per step of today_image that reads  *)
(* or writes the shared state.                                             *)

\* the items of the startup selection in the threaded runs: n records of
\* the day of rdp.TODAY above the threshold, landscape and portrait in turn
PlainItems(n) ==
    [i \in 1..n |-> Item(i, DateOf(TODAY)[1], DateOf(TODAY)[2], Some(85),
                         IF i % 2 = 1 THEN "landscape" ELSE "portrait")]

StartupPlain ==
    /\ STARTUP_SELECTED_PHOTOS = None
    /\ \E n \in 0..MaxPhotos :
          \E lists \in main(PlainItems(n), MEMORY_THRESHOLD) :
             STARTUP_SELECTED_PHOTOS' = Some(lists)
    /\ UNCHANGED <<selectionVars, compositorVars, CYCLE_STATES,
                   LAST_PHOTO_DATE, CYCLE_PHOTOS, CYCLE_IDX, CYCLE_LOCK,
                   threads, clock, served, join_call>>

\* mutant: the lock is handed out while another thread holds it
CanAcquire_Always(lock) == TRUE

\* threading.Lock: acquired only while no thread holds it
CanAcquire(lock) == lock = None

\* a request arrives and a thread starts today_image with its orientation
Request ==
    /\ STARTUP_SELECTED_PHOTOS # None
    /\ Len(threads) < MaxThreads
    /\ \E orientation \in Orientations :
          threads' = Append(threads,
              [pc |-> "acquire", orientation |-> orientation,
               fresh |-> FALSE, next_idx |-> 0, photo |-> None,
               status |-> 0, date |-> 0])
    /\ UNCHANGED <<selectionVars, compositorVars, CYCLE_STATES,
                   LAST_PHOTO_DATE, STARTUP_SELECTED_PHOTOS, CYCLE_PHOTOS,
                   CYCLE_IDX, CYCLE_LOCK, clock, served, join_call>>

\* with _CYCLE_LOCK: entered
Acquire(t) ==
    /\ threads[t].pc = "acquire"
    /\ CanAcquire(CYCLE_LOCK)
    /\ CYCLE_LOCK' = Some(t)
    /\ threads' = [threads EXCEPT ![t].pc = "ensure"]
    /\ UNCHANGED <<selectionVars, compositorVars, CYCLE_STATES,
                   LAST_PHOTO_DATE, STARTUP_SELECTED_PHOTOS, CYCLE_PHOTOS,
                   CYCLE_IDX, clock, served, join_call>>

\* _ensure_cycle_photos(orientation = orientation), then
\* "if not _CYCLE_PHOTOS: abort(404)"
Ensure(t) ==
    /\ threads[t].pc = "ensure"
    /\ \E cycle \in {ensure_cycle_photos(CacheKey(threads[t].orientation),
                        CYCLE_STATES, LAST_PHOTO_DATE,
                        STARTUP_SELECTED_PHOTOS[1], clock.now,
                        strftime(clock.date))} :
          /\ CYCLE_STATES' = cycle.states
          /\ LAST_PHOTO_DATE' = cycle.last_date
          /\ CYCLE_PHOTOS' = cycle.photos
          /\ CYCLE_IDX' = cycle.idx
          /\ threads' = [threads EXCEPT
                ![t].fresh = cycle.fresh,
                ![t].date = clock.date,
                ![t].status = IF cycle.photos = <<>> THEN 404 ELSE 0,
                ![t].pc = IF cycle.photos = <<>> THEN "release" ELSE "read"]
    /\ UNCHANGED <<selectionVars, compositorVars, STARTUP_SELECTED_PHOTOS,
                   CYCLE_LOCK, clock, served, join_call>>

\* idx = _CYCLE_IDX; next_idx = (_CYCLE_IDX + 1) % len(_CYCLE_PHOTOS);
\* photo = _CYCLE_PHOTOS[idx]. An empty list or an index past its end makes
\* the statement raise, and Flask answers 500.
ReadIdx(t) ==
    /\ threads[t].pc = "read"
    /\ threads' =
          IF CYCLE_PHOTOS = <<>> \/ CYCLE_IDX >= Len(CYCLE_PHOTOS)
          THEN [threads EXCEPT ![t].status = 500, ![t].pc = "release"]
          ELSE [threads EXCEPT
                  ![t].next_idx = next_idx(CYCLE_IDX, CYCLE_PHOTOS),
                  ![t].photo = Some(CYCLE_PHOTOS[CYCLE_IDX + 1]),
                  ![t].status = 200,
                  ![t].pc = "write"]
    /\ UNCHANGED <<selectionVars, compositorVars, CYCLE_STATES,
                   LAST_PHOTO_DATE, STARTUP_SELECTED_PHOTOS, CYCLE_PHOTOS,
                   CYCLE_IDX, CYCLE_LOCK, clock, served, join_call>>

\* _CYCLE_STATES[cache_key]['idx'] = next_idx; _CYCLE_IDX = next_idx
WriteIdx(t) ==
    /\ threads[t].pc = "write"
    /\ CYCLE_STATES' = StoreIdx(CYCLE_STATES, CacheKey(threads[t].orientation),
                                threads[t].next_idx)
    /\ CYCLE_IDX' = threads[t].next_idx
    /\ threads' = [threads EXCEPT ![t].pc = "release"]
    /\ UNCHANGED <<selectionVars, compositorVars, LAST_PHOTO_DATE,
                   STARTUP_SELECTED_PHOTOS, CYCLE_PHOTOS, CYCLE_LOCK, clock,
                   served, join_call>>

\* the with block is left, by its end or by abort, and the response is sent
Release(t) ==
    /\ threads[t].pc = "release"
    /\ CYCLE_LOCK' = None
    /\ threads' = [threads EXCEPT ![t].pc = "done"]
    /\ served' = Append(served,
          Response(CacheKey(threads[t].orientation), threads[t].status,
                   threads[t].photo, threads[t].fresh, threads[t].date))
    /\ UNCHANGED <<selectionVars, compositorVars, CYCLE_STATES,
                   LAST_PHOTO_DATE, STARTUP_SELECTED_PHOTOS, CYCLE_PHOTOS,
                   CYCLE_IDX, clock, join_call>>

NextThreads ==
    \/ StartupPlain
    \/ Tick
    \/ Midnight
    \/ Request
    \/ \E t \in 1..Len(threads) : Acquire(t)
    \/ \E t \in 1..Len(threads) : Ensure(t)
    \/ \E t \in 1..Len(threads) : ReadIdx(t)
    \/ \E t \in 1..Len(threads) : WriteIdx(t)
    \/ \E t \in 1..Len(threads) : Release(t)

SpecThreads == InitServer /\ [][NextThreads]_vars

----------------------------------------------------------------------------
(* Properties of the /today-image rotation.                                *)

\* the places in served of the requests for cache_key, in order
RequestsOf(cache_key) ==
    SelectSeq([i \in 1..Len(served) |-> i],
              LAMBDA i : served[i].key = cache_key)

\* the place of a served photo in the startup list of cache_key
PlaceIn(cache_key, photo) ==
    CHOOSE p \in 1..Len(STARTUP_SELECTED_PHOTOS[1][cache_key]) :
        STARTUP_SELECTED_PHOTOS[1][cache_key][p] = photo[1]

\* the request at place j of served answers with the photo after the one of
\* the request at place i
Follows(cache_key, i, j) ==
    LET n == Len(STARTUP_SELECTED_PHOTOS[1][cache_key])
    IN  PlaceIn(cache_key, served[j].photo) =
            (PlaceIn(cache_key, served[i].photo) % n) + 1

\* C20, as stated: for a key with n >= 1 photos every /today-image request
\* returns the photo that follows, cyclically modulo n, the photo returned
\* by the previous request for that key, and any n consecutive requests for
\* the key return each of the n photos exactly once.
C20_RoundRobin ==
    STARTUP_SELECTED_PHOTOS # None =>
        \A cache_key \in Keys :
            LET reqs == RequestsOf(cache_key)
                n    == Len(STARTUP_SELECTED_PHOTOS[1][cache_key])
            IN  n >= 1 =>
                  /\ \A r \in 2..Len(reqs) :
                        Follows(cache_key, reqs[r - 1], reqs[r])
                  /\ \A r \in 1..(Len(reqs) - n + 1) :
                        {served[reqs[q]].photo[1] : q \in r..(r + n - 1)}
                            = Range(STARTUP_SELECTED_PHOTOS[1][cache_key])


----------------------------------------------------------------------------
(* Properties of the concurrent requests.                                  *)

\* the threads handling a request for cache_key whose position is in pcs
ThreadsAt(cache_key, pcs) ==
    {t \in 1..Len(threads) :
        CacheKey(threads[t].orientation) = cache_key /\ threads[t].pc \in pcs}

\* the threads inside "with _CYCLE_LOCK"
InCriticalSection ==
    {t \in 1..Len(threads) :
        threads[t].pc \in {"ensure", "read", "write", "release"}}

\* the threads that have been given a photo of cache_key
Given(cache_key) ==
    {t \in ThreadsAt(cache_key, {"write", "release", "done"}) :
        threads[t].status = 200}

\* those of them that have stored the advanced cursor
Advanced(cache_key) ==
    {t \in ThreadsAt(cache_key, {"release", "done"}) : threads[t].status = 200}

\* the requests for cache_key that found no usable entry and built one
Builders(cache_key) ==
    {t \in ThreadsAt(cache_key, {"read", "write", "release", "done"}) :
        threads[t].fresh}

\* C21: the check-then-fill of the cache entry and the read-and-advance of
\* the cursor run as one critical section under _CYCLE_LOCK: at most one
\* thread is inside it, and under every interleaving k concurrent requests
\* for the same key on one unexpired entry of n >= k photos are served k
\* distinct photos and leave the cursor advanced by exactly k modulo n.
C21_CacheLock ==
    /\ Cardinality(InCriticalSection) <= 1
    /\ \A cache_key \in Keys :
          (/\ CYCLE_STATES[cache_key] # None
           /\ CYCLE_STATES[cache_key][1].photos # <<>>
           /\ Cardinality(Builders(cache_key)) = 1)
             => LET n == Len(CYCLE_STATES[cache_key][1].photos)
                    k == Cardinality(Advanced(cache_key))
                IN  /\ CYCLE_STATES[cache_key][1].idx = k % n
                    /\ Cardinality(Given(cache_key)) <= n
                         => \A t, u \in Given(cache_key) :
                               t # u => threads[t].photo # threads[u].photo

\* two requests for the same key were in flight together and both were
\* served from the entry the first of them built
C21_Witness ==
    /\ Len(threads) = 2
    /\ threads[1].pc = "done" /\ threads[2].pc = "done"
    /\ threads[1].orientation = None /\ threads[2].orientation = None
    /\ threads[1].status = 200 /\ threads[2].status = 200
    /\ threads[2].fresh /\ ~threads[1].fresh
    /\ threads[1].photo # threads[2].photo
    /\ CYCLE_STATES["all"][1].idx = 2 % Len(CYCLE_STATES["all"][1].photos)


----------------------------------------------------------------------------
(* Properties of the cache and of the startup lists.                        *)

\* C22, as stated: every photo list served by /today-image on calendar date
\* D is a selection computed for target date D: after a change of the date
\* or the expiry of the time-to-live the entry is refilled with a selection
\* computed for the current date, never with one computed for an earlier
\* date. The lists the server fills from are those computed for rdp.TODAY.
C22_CacheKeyedByDate ==
    \A i \in 1..Len(served) :
        served[i].status = 200 => served[i].date = TODAY


----------------------------------------------------------------------------
(* Properties of the selections as functions of their input.                *)

RankedWithTiesByPath(s) ==
    \A i, j \in 1..Len(s) :
        i < j => \/ s[i].memory > s[j].memory
                 \/ s[i].memory = s[j].memory /\ s[i].path < s[j].path

\* C24, as stated: after bucketing, every month/day bucket is sorted by
\* memory descending with records of equal memory ordered by path, so the
\* padding entries of a padded result and the global ranking of a fallback
\* result are in that order whatever the order of the input list.
C24_BucketOrder ==
    FlatReturned =>
        /\ \A md \in DOMAIN by_md(items) : RankedWithTiesByPath(by_md(items)[md])
        /\ ret.info.fallback_global_max => RankedWithTiesByPath(ret.chosen)
        /\ (~ret.info.fallback_global_max
              /\ ret.info.candidate_count < call.count)
             => RankedWithTiesByPath(
                    SubSeq(ret.chosen, ret.info.candidate_count + 1,
                           Len(ret.chosen)))


\* the records of a list whose image file probes as the given orientation
Probing(s, probe) == {i \in 1..Len(s) : s[i].probe = probe}

Unknown(p) == p.probe \notin {"landscape", "portrait"}

\* C25: in balanced selection a candidate whose image is missing or
\* unreadable never makes the selection fail, is never counted toward the
\* landscape or the portrait total while backtracking (the loop breaks only
\* on candidates that probe as landscape and as portrait), and enters the
\* result only through the global fill, after the sampled entries.
C25_UnknownOrientation ==
    (call.kind = "choose_photos_by_orientation" /\ items # <<>>) =>
        /\ ret.kind = "return"
        /\ \A j \in 1..Len(ret.chosen) :
              Unknown(ret.chosen[j]) => j > ret.sampled
        /\ ret.broke =>
              /\ Cardinality(Probing(ret.pool, "landscape"))
                    >= call.landscape_count
              /\ Cardinality(Probing(ret.pool, "portrait"))
                    >= call.portrait_count

\* an unreadable candidate of the pool comes back after a sampled landscape
C25_Witness ==
    /\ BalancedReturned
    /\ call.landscape_count = 1 /\ call.portrait_count = 1
    /\ ret.sampled = 1
    /\ Len(ret.chosen) = 2
    /\ ret.chosen[1].probe = "landscape"
    /\ Unknown(ret.chosen[2])
    /\ ret.chosen[2] \in Range(ret.pool)


----------------------------------------------------------------------------
(* _safe_join of server.py. A name is the sequence of its characters, a    *)
(* path the sequence of the names after the root, a relative path what     *)
(* splitting it at "/" gives, with whether it starts with "/". The file   *)
(* system holds no symbolic link.                                          *)

\* bound of the path runs: the segments of a relative path
MaxRel == 3

DotDot == <<".", ".">>
Dot == <<".">>

\* base / rel: an absolute rel replaces base; "." segments are dropped
PathJoin(base, rel) ==
    LET segments == SelectSeq(rel.segments, LAMBDA name : name # Dot)
    IN  IF rel.absolute THEN segments ELSE base \o segments

\* Path.resolve(): ".." removes the name before it, and nothing at the root
RECURSIVE resolve(_)
resolve(path) ==
    IF path = <<>> THEN <<>>
    ELSE LET before == resolve(SubSeq(path, 1, Len(path) - 1))
             name   == path[Len(path)]
         IN  IF name = DotDot
             THEN (IF before = <<>> THEN <<>>
                   ELSE SubSeq(before, 1, Len(before) - 1))
             ELSE Append(before, name)

\* str(p): the names after the root, each behind a "/"
RECURSIVE str(_)
str(path) ==
    IF path = <<>> THEN <<"/">>
    ELSE IF Len(path) = 1 THEN <<"/">> \o path[1]
    ELSE str(SubSeq(path, 1, Len(path) - 1)) \o <<"/">> \o path[Len(path)]

\* s.startswith(prefix)
startswith(s, prefix) ==
    Len(prefix) <= Len(s) /\ SubSeq(s, 1, Len(prefix)) = prefix

\* _safe_join(base, rel)
safe_join(base, rel) ==
    LET p == resolve(PathJoin(base, rel))
    IN  IF ~startswith(str(p), str(resolve(base)))
        THEN [kind |-> "raise", error |-> "path traversal blocked"]
        ELSE [kind |-> "return", p |-> p]

\* IMAGE_DIR and BIN_OUTPUT_DIR in the runs, and the directories beside them
Names == {<<"a">>, <<"a", "b">>, <<"b">>}

Bases == {<<<<"a">>>>, <<<<"b">>, <<"a">>>>}

RelPaths ==
    UNION {{[absolute |-> absolute, segments |-> segments] :
               segments \in [1..n -> Names \cup {DotDot, Dot}],
               absolute \in BOOLEAN} : n \in 0..MaxRel}

\* a request for /images/<subpath> or /download/<subpath> reaches _safe_join
SafeJoin ==
    /\ \E base \in Bases, rel \in RelPaths :
          join_call' = [kind |-> "_safe_join", base |-> base, rel |-> rel,
                        result |-> safe_join(base, rel)]
    /\ UNCHANGED <<selectionVars, compositorVars, CYCLE_STATES,
                   LAST_PHOTO_DATE, STARTUP_SELECTED_PHOTOS, CYCLE_PHOTOS,
                   CYCLE_IDX, CYCLE_LOCK, threads, clock, served>>

NextJoin == SafeJoin

SpecJoin == InitServer /\ [][NextJoin]_vars

\* the path lies in the directory base or below it
Inside(path, base) ==
    Len(base) <= Len(path) /\ SubSeq(path, 1, Len(base)) = base

\* C26, as stated: for every base directory and every relative path, with
\* ".." components or resolving to a sibling directory whose name starts
\* with the name of the base directory, _safe_join either raises or returns
\* a path located inside the base directory.
C26_PathTraversalGuard ==
    (join_call.kind = "_safe_join" /\ join_call.result.kind = "return")
        => Inside(join_call.result.p, resolve(join_call.base))


----------------------------------------------------------------------------
(* Properties of the selections around 29 February.                        *)

Feb29 == FmtMd(2, 29)
Mar01 == FmtMd(3, 1)

\* C27: a record of 02-29 is never visited by the date backtracking of
\* either selection, for any target date: flat selection returns one only
\* with the global fallback, balanced selection only through the global
\* fill and never from the pool; and a target date of 29 February is day
\* of year 60, so the search starts at the bucket of 03-01 with offset 0.
C27_LeapDay ==
    /\ FlatReturned =>
          /\ (\E j \in 1..Len(ret.chosen) : ret.chosen[j].md = Feb29)
                => ret.info.fallback_global_max
          /\ ret.info.used_md = Feb29 => ret.info.fallback_global_max
          /\ (call.today = <<2, 29>> /\ QualifyingOn(Mar01) # {})
                => /\ ~ret.info.fallback_global_max
                   /\ ret.info.used_md = Mar01
                   /\ ret.info.day_offset = Some(0)
    /\ BalancedReturned =>
          /\ \A i \in 1..Len(ret.pool) : ret.pool[i].md # Feb29
          /\ \A j \in 1..Len(ret.chosen) :
                ret.chosen[j].md = Feb29 => j > ret.sampled
          /\ (call.today = <<2, 29>> /\ QualifyingOn(Mar01) # {})
                => ret.pool # <<>> /\ ret.pool[1].md = Mar01

\* for the target date 29 February records of 02-29 and 03-01 are above the
\* threshold and the one of 03-01 is returned
C27_Witness ==
    /\ FlatReturned
    /\ call.today = <<2, 29>>
    /\ call.count = 1
    /\ QualifyingOn(Feb29) # {}
    /\ QualifyingOn(Mar01) # {}
    /\ ret.info.used_md = Mar01
    /\ Len(ret.chosen) = 1


----------------------------------------------------------------------------
(* Bounds of the balanced result.                                          *)

\* C28: for every input the list returned by balanced selection holds at
\* most landscape_count photos that probe as landscape, at most
\* portrait_count photos that probe as portrait, and at most
\* landscape_count + portrait_count entries in all, those of unknown
\* orientation included.
C28_BalancedUpperBounds ==
    BalancedReturned =>
        /\ CountProbe(ret.chosen, "landscape") <= call.landscape_count
        /\ CountProbe(ret.chosen, "portrait") <= call.portrait_count
        /\ Len(ret.chosen) <= call.landscape_count + call.portrait_count

\* the pool holds two landscape candidates and an unreadable one; one
\* landscape is sampled and the unreadable record fills the portrait place
C28_Witness ==
    /\ BalancedReturned
    /\ call.landscape_count = 1 /\ call.portrait_count = 1
    /\ Cardinality(Probing(ret.pool, "landscape")) = 2
    /\ Len(items) = 3
    /\ Len(ret.chosen) = 2
    /\ CountProbe(ret.chosen, "landscape") = 1
    /\ Unknown(ret.chosen[2])


----------------------------------------------------------------------------
(* The cursors of the cache.                                               *)

\* every cache entry with photos has its cursor inside the list
CursorsInRange ==
    \A cache_key \in Keys :
        (CYCLE_STATES[cache_key] # None
           /\ CYCLE_STATES[cache_key][1].photos # <<>>)
          => /\ 0 <= CYCLE_STATES[cache_key][1].idx
             /\ CYCLE_STATES[cache_key][1].idx
                   < Len(CYCLE_STATES[cache_key][1].photos)

\* the photo list and the cursor of an entry, None for an absent key
ListAndCursor(entry) ==
    IF entry = None THEN None ELSE Some(<<entry[1].photos, entry[1].idx>>)

\* the keys of the requests whose thread takes this step
SteppingKeys ==
    {CacheKey(threads'[t].orientation) :
        t \in {u \in 1..Len(threads) : threads'[u] # threads[u]}}

\* C29: after any sequence of /today-image requests every cache entry with
\* a non-empty photo list has 0 <= idx < len(photos); and while the
\* calendar date is the one of the last request, a step of a request for
\* one key leaves the photo list and the cursor of every other key
\* unchanged.
C29_CursorInvariant ==
    [][/\ CursorsInRange'
       /\ LAST_PHOTO_DATE = strftime(clock.date) =>
             \A cache_key \in Keys :
                ListAndCursor(CYCLE_STATES'[cache_key])
                      # ListAndCursor(CYCLE_STATES[cache_key])
                   => SteppingKeys = {cache_key}]_vars

\* the cursor of "landscape" has wrapped to 0 after one request and the
\* entry of "all", built and advanced by another request, stands at 1
C29_Witness ==
    /\ Len(threads) = 2
    /\ threads[1].pc = "done" /\ threads[2].pc = "done"
    /\ threads[1].orientation = Some("landscape")
    /\ threads[1].status = 200
    /\ threads[2].orientation = None
    /\ threads[2].status = 200
    /\ CYCLE_STATES["landscape"] # None
    /\ CYCLE_STATES["landscape"][1].idx = 0
    /\ CYCLE_STATES["all"] # None
    /\ CYCLE_STATES["all"][1].idx = 1


----------------------------------------------------------------------------
(* The orientation of the photos served.                                   *)

\* C30, as stated: every photo served by /today-image for
\* orientation=landscape is one the startup selection classified as
\* landscape, and every photo served for orientation=portrait one it
\* classified as portrait, for every selection result the server builds its
\* lists from, partial results and fallback-filled entries included.
C30_OrientationSpecific ==
    \A i \in 1..Len(served) :
        (served[i].status = 200 /\ served[i].key # "all")
            => served[i].photo[1].probe = served[i].key

====
